---- MODULE Spec2Model ----
(***************************************************************************)
(* KubeLite: the reconciliation controller (KubeLiteOrchestrator), the     *)
(* runtime client it drives (NosanaClient) and the tools that call them.   *)
(*                                                                         *)
(* The program runs on one JavaScript event loop.  A handler runs without  *)
(* interruption up to an await of a docker command (execAsync); only such  *)
(* awaits are suspension points.  An operation that is suspended on a      *)
(* docker command is a record of `cycles'; one action of the model is one  *)
(* handler segment: from a call, or from the completion of a docker        *)
(* command, up to the next docker command or the return of the operation.  *)
(*                                                                         *)
(* Container ids are abstract identities: the id docker reports for a      *)
(* container is the same in every listing.                                 *)
(***************************************************************************)
EXTENDS Integers, Sequences, FiniteSets, Bags, TLC

\* ------------------------------------------------------------ bounds
MaxReplicas == 2      \* largest spec.replicas written to the manifest
MaxCreated == 3       \* containers docker creates over a run
MaxCycles == 2        \* operations suspended on a docker command at once
MaxTimers == 1        \* interval timers armed at once
MaxLines == 3         \* lines of a container log given to the failure analyzer

\* ------------------------------------------------------------ data
Apps == {"web", "db"}
ManifestName == "web"           \* metadata.name of the manifest file
InvalidManifest == -1           \* a manifest that cannot be read or parsed
Clients == {"orch", "heal"}     \* the NosanaClient of the orchestrator, of the Phase 3 tools
ReconcileKinds == {"tick", "manual", "start"}

\* Containers that exist in docker before the program starts: -1 is an
\* unmanaged workload (no kubelite.managed label) that happens to carry the
\* label kubelite.app=web; 0 is a managed container of application db that
\* another process created.  Ids 1.. are created by this program.
Preexisting == {-1, 0}

\* labels kubelite.managed / kubelite.app of a container, and its creation time
Managed(id) == id # -1
AppLabel(id) == IF id = 0 THEN "db" ELSE "web"
CreatedAt(id) == id

\* ---- the commands applied to the desired-state store
Images == {"nginx", "redis"}
Intents == {"deploy", "scale", "delete", "status", "stop", "help"}
NoName == ""                \* command.appName undefined (or empty: both are falsy)
NoImage == ""               \* command.image undefined (or empty)
NoReplicas == -2            \* command.replicas undefined
NegativeReplicas == -1      \* a negative command.replicas
NoPorts == <<>>             \* command.ports undefined; given ports p are <<p>>
ReplicaArgs == (NegativeReplicas..MaxReplicas) \cup {NoReplicas}
PortArgs == {NoPorts, << <<80>> >>}

\* ParsedCommand
Command(intent, appName, image, replicas, ports) ==
    [intent |-> intent, appName |-> appName, image |-> image,
     replicas |-> replicas, ports |-> ports]

\* the commands applied: every field a handler reads is given or left undefined,
\* the fields it does not read are left undefined
DeployCommands ==
    {Command("deploy", n, i, r, p) :
        n \in Apps \cup {NoName}, i \in Images \cup {NoImage}, r \in ReplicaArgs, p \in PortArgs}
ScaleCommands ==
    {Command("scale", n, NoImage, r, NoPorts) : n \in Apps \cup {NoName}, r \in ReplicaArgs}
DeleteCommands ==
    {Command("delete", n, NoImage, NoReplicas, NoPorts) : n \in Apps \cup {NoName}}
OtherCommands ==
    {Command(i, NoName, NoImage, NoReplicas, NoPorts) : i \in Intents \ {"deploy", "scale", "delete"}}
\* no command has been applied yet
NoCommand == Command("none", NoName, NoImage, NoReplicas, NoPorts)

\* ---- JavaScript values, as far as the command parser and the failure analyzer
\* tell them apart.  Numbers that are confidences are counted in hundredths.
JsValue(type, num, str) == [type |-> type, num |-> num, str |-> str]
Undefined == JsValue("undefined", 0, "")    \* undefined, null, or a field the object lacks
NaN == JsValue("NaN", 0, "")
JsNumber(n) == JsValue("number", n, "")
JsString(s) == JsValue("string", 0, s)

\* the number 1 of Math.min(1, ...), in hundredths
One == 100
\* parsed.confidence || 0.5 and analysis.confidence || 0.5
DefaultConfidence == 50
\* confidence: 0.1 of the parser's catch block
FailedConfidence == 10
\* command.confidence < 0.7: generateExplanation asks the user to clarify
ClarifyThreshold == 70

\* ParsedCommand as parseCommand returns it; note is the application name that the
\* text appended to the reasoning quotes, "" when nothing was appended
ParsedCommand(intent, appName, image, replicas, ports, confidence, reasoning, note) ==
    [intent |-> intent, appName |-> appName, image |-> image, replicas |-> replicas,
     ports |-> ports, confidence |-> confidence, reasoning |-> reasoning, note |-> note]

\* What the text-generation service does with one prompt.  kind: "error" (the call
\* rejects: fetch fails or the status is not ok), "notext" (the reply has no response
\* field), "text" (text that is no JSON), "prose" (a JSON object with words around
\* it), "null" (the JSON text null), "object" (a JSON object, its fields in object).
Response(kind, object) == [kind |-> kind, object |-> object]
NoObject ==
    [intent |-> Undefined, appName |-> Undefined, image |-> Undefined,
     replicas |-> Undefined, ports |-> Undefined, confidence |-> Undefined,
     reasoning |-> Undefined, rootCause |-> Undefined]
NoResponse == Response("none", NoObject)

\* ---- manifests.  KubeLiteApp as the store and the callers of appToYaml hold it:
\* name and image are texts, replicas a number, ports a list of numbers
KubeLiteApp(name, image, replicas, ports) ==
    [name |-> name, image |-> image, replicas |-> replicas, ports |-> ports]

\* A scalar of a YAML text: style "plain" (written as it is), "quoted" (between
\* quotes), "absent" (the key is not in the text)
Scalar(style, text) == [style |-> style, text |-> text]
Absent == Scalar("absent", "")

\* The text of a manifest: the scalars under kind, metadata.name, spec.replicas and
\* spec.container.image, and the containerPort scalars under spec.container.ports
\* (no ports key when there is none)
ManifestText(kind, name, replicas, image, ports) ==
    [kind |-> kind, name |-> name, replicas |-> replicas, image |-> image, ports |-> ports]

\* what ManifestParser makes of a text: the error it throws, "" when it returns the
\* application; a field of the application is a JavaScript value
ParseResult(error, name, image, replicas, hasPorts, ports) ==
    [error |-> error, name |-> name, image |-> image, replicas |-> replicas,
     hasPorts |-> hasPorts, ports |-> ports]

VARIABLES
    manifest,           \* spec.replicas of the manifest file, or InvalidManifest
    docker,             \* ids of the containers running in docker
    nextId,             \* the id docker gives the next container
    containers,         \* NosanaClient.containers of each client: ids in Map insertion order
    failed,             \* ids whose status is "failed" in the heal client's registry
    isRunning,          \* KubeLiteOrchestrator.isRunning
    reconcileInterval,  \* KubeLiteOrchestrator.reconcileInterval: TRUE when it holds the
                        \* handle of a timer, FALSE when it is undefined
    timers,             \* how many interval timers are armed
    cycles,             \* the operations suspended on a docker command (a bag)
    alive,              \* the process has not died of an unhandled rejection
    ret,                \* history: how the reconcile() call that returned in the last step
                        \* ended: "ok", "error" (rejected to its caller), "caught" (rejected
                        \* and swallowed by the interval callback), "none" (no call returned)
    extSince,           \* history: the manifest was edited while a reconcile cycle was in
                        \* flight, and cycles have been in flight ever since
    applications,       \* StateManager.applications: name -> KubeLiteApp
    result,             \* what the last StateManager.applyCommand returned
    applied,            \* history: the command of the last applyCommand call
    prompted,           \* history: the input of the last CommandParser.parseCommand call
                        \* and what the text-generation service did with its prompt
    parsed,             \* the ParsedCommand that call returned
    analysis,           \* what the last FailureAnalyzer call did and returned
    toolCall,           \* the last call of a tool's execute: how many commands of its
                        \* collaborators failed in it so far, and what it returned
    converted,          \* history: the last manifest text written or read: the application
                        \* it was generated from, the text, what the parser made of it
    before              \* history: StateManager.applications when the command tool's
                        \* execute was last entered

vars == <<manifest, docker, nextId, containers, failed, isRunning,
          reconcileInterval, timers, cycles, alive, ret, extSince,
          applications, result, applied, prompted, parsed, analysis, toolCall,
          converted, before>>

\* ------------------------------------------------------------ helpers
Max(a, b) == IF a > b THEN a ELSE b
Range(s) == {s[i] : i \in 1..Len(s)}
Remove(s, id) == SelectSeq(s, LAMBDA x : x # id)
\* Map.set: a present key keeps its position, a new key goes last
MapSet(s, id) == IF id \in Range(s) THEN s ELSE Append(s, id)

\* manifest.spec.replicas || 1
ParseReplicas(raw) == IF raw = 0 THEN 1 ELSE raw

\* NosanaClient.getContainersByApp
getContainersByApp(cl, appName) ==
    SelectSeq(containers[cl], LAMBDA id : AppLabel(id) = appName)

\* NosanaClient.getFailedContainers
getFailedContainers(cl) ==
    SelectSeq(containers[cl], LAMBDA id : id \in failed)

\* mutant: newest first
CompareCreatedAtDescending(a, b) == CreatedAt(b) - CreatedAt(a)

\* the comparator of the scale-down sort
CompareCreatedAt(a, b) == CreatedAt(a) - CreatedAt(b)

\* Array.prototype.sort with that comparator (stable insertion into a sorted prefix)
RECURSIVE InsertSorted(_, _)
InsertSorted(s, x) ==
    IF s = <<>> THEN <<x>>
    ELSE IF CompareCreatedAt(s[Len(s)], x) <= 0 THEN Append(s, x)
    ELSE Append(InsertSorted(SubSeq(s, 1, Len(s) - 1), x), s[Len(s)])

RECURSIVE SortByCreatedAt(_)
SortByCreatedAt(s) ==
    IF s = <<>> THEN <<>>
    ELSE InsertSorted(SortByCreatedAt(SubSeq(s, 1, Len(s) - 1)), s[Len(s)])

\* ------------------------------------------------------------ operations in flight
\* What an operation holds across its awaits.  kind: "tick", "manual", "start" (a
\* reconcile cycle and who called it), "deploy", "delete", "heal"; create: how many
\* iterations of its create loop are left; stop: the containers its stop loop has
\* still to go through, the one whose docker command is pending first.
NewOp(kind, app, create, stop) ==
    [kind |-> kind, app |-> app, create |-> create, stop |-> stop]

ClientOf(kind) == IF kind = "heal" THEN "heal" ELSE "orch"

\* mutant: one create too many
ToCreateOffByOne(desiredReplicas, currentContainers) ==
    IF Len(currentContainers) < desiredReplicas
    THEN desiredReplicas - Len(currentContainers) + 1
    ELSE 0

\* reconcileApp: toCreate
ToCreate(desiredReplicas, currentContainers) ==
    IF Len(currentContainers) < desiredReplicas
    THEN desiredReplicas - Len(currentContainers)
    ELSE 0

\* mutant: the slice takes one container too many
ContainersToRemoveOneMore(desiredReplicas, currentContainers) ==
    IF Len(currentContainers) > desiredReplicas
    THEN SubSeq(SortByCreatedAt(currentContainers), 1,
                Len(currentContainers) - Max(0, desiredReplicas) + 1)
    ELSE <<>>

\* reconcileApp: containersToRemove = currentContainers.sort(by createdAt).slice(0, toRemove)
ContainersToRemove(desiredReplicas, currentContainers) ==
    IF Len(currentContainers) > desiredReplicas
    THEN SubSeq(SortByCreatedAt(currentContainers), 1,
                Len(currentContainers) - Max(0, desiredReplicas))
    ELSE <<>>

\* the operations of these kinds that are in flight, and how many they are
InFlight(kinds) == {op \in BagToSet(cycles) : op.kind \in kinds}
NumInFlight(kinds) == BagCardinality([op \in InFlight(kinds) |-> cycles[op]])

\* no applyCommand call has returned yet
NoResult == [success |-> FALSE, message |-> "none", apps |-> {}]

\* the orchestrator, the runtime client and their tools never touch the store
StoreUnchanged == UNCHANGED <<applications, result, applied, before>>

\* no parseCommand call and no FailureAnalyzer call has been made yet
NoPrompt == [input |-> "", response |-> NoResponse]
NoParsed ==
    ParsedCommand(Undefined, Undefined, Undefined, Undefined, Undefined, Undefined, Undefined, "")
NoReport == [kind |-> "none", groups |-> {}]
NoAnalysis ==
    [op |-> "none", containerId |-> -2, model |-> NoResponse,
     out |-> [ok |-> FALSE, logs |-> {}],
     error |-> "none", fetched |-> FALSE, analyses |-> <<>>, report |-> NoReport]

\* no tool has been called yet
NoToolCall ==
    [tool |-> "none", failures |-> 0, healed |-> <<>>, returned |-> FALSE, success |-> FALSE]

\* no manifest text has been written or read yet
NoConverted ==
    [op |-> "none", app |-> KubeLiteApp("", "", 0, <<>>),
     text |-> ManifestText(Absent, Absent, Absent, Absent, <<>>),
     out |-> ParseResult("none", Undefined, Undefined, Undefined, FALSE, <<>>)]

\* neither the command parser nor the failure analyzer is called, and no manifest
\* text is recorded
LanguageUnchanged == UNCHANGED <<prompted, parsed, analysis, converted>>

\* nor is the call made through a tool's execute
AiUnchanged == LanguageUnchanged /\ UNCHANGED toolCall

Init ==
    /\ manifest = 1
    /\ docker = Preexisting
    /\ nextId = 1
    /\ containers = [cl \in Clients |-> <<>>]
    /\ failed = {}
    /\ isRunning = FALSE
    /\ reconcileInterval = FALSE
    /\ timers = 0
    /\ cycles = EmptyBag
    /\ alive = TRUE
    /\ ret = "none"
    /\ extSince = FALSE
    /\ applications = {}
    /\ result = NoResult
    /\ applied = NoCommand
    /\ prompted = NoPrompt
    /\ parsed = NoParsed
    /\ analysis = NoAnalysis
    /\ toolCall = NoToolCall
    /\ converted = NoConverted
    /\ before = {}

\* ------------------------------------------------------------ returning to the caller
\* mutant: the callback without its try/catch
TimerCallbackNoCatch(res) == res = "ok"

\* The interval callback of start(): try { await reconcile } catch { log }.
\* TRUE when the callback's promise settles without an unhandled rejection.
TimerCallback(res) == TRUE

\* mutant: the catch block of reconcile logs the error and does not rethrow it
ReturnSwallowed(kind, res) ==
    /\ IF kind = "start" /\ res = "ok"
       THEN /\ timers' = timers + 1
            /\ reconcileInterval' = TRUE
       ELSE UNCHANGED <<timers, reconcileInterval>>
    /\ alive' = IF kind = "tick" THEN TimerCallback(res) ELSE alive
    /\ ret' = IF kind \notin ReconcileKinds THEN "none"
              ELSE IF res = "error" THEN "caught"
              ELSE res

\* What the rest of the handler does once the operation `kind' has ended with `res':
\* start() arms the timer after a successful initial reconciliation and rejects
\* otherwise; the interval callback swallows the error; every other operation
\* hands the result to its caller.
Return(kind, res) ==
    /\ IF kind = "start" /\ res = "ok"
       THEN /\ timers' = timers + 1
            /\ reconcileInterval' = TRUE
       ELSE UNCHANGED <<timers, reconcileInterval>>
    /\ alive' = IF kind = "tick" THEN TimerCallback(res) ELSE alive
    /\ ret' = IF kind \notin ReconcileKinds THEN "none"
              ELSE IF kind = "tick" /\ res = "error" THEN "caught"
              ELSE res

Suspend ==
    /\ ret' = "none"
    /\ UNCHANGED <<timers, reconcileInterval, alive>>

\* history of manifest edits, kept while reconcile cycles are in flight
ExtNext(edited) ==
    extSince' = IF \A op \in BagToSet(cycles') : op.kind \notin ReconcileKinds
                THEN FALSE
                ELSE extSince \/ (edited /\ InFlight(ReconcileKinds) # {})

\* The operation issues its first docker command and suspends, or has nothing to
\* do and returns at once.
Launch(op) ==
    IF op.create > 0 \/ op.stop # <<>>
    THEN /\ BagCardinality(cycles) < MaxCycles
         /\ cycles' = cycles (+) SetToBag({op})
         /\ Suspend
    ELSE /\ cycles' = cycles
         /\ Return(op.kind, "ok")

\* KubeLiteOrchestrator.reconcile up to its first docker command: parse the
\* manifest, take the snapshot of the application's containers, enter reconcileApp
\* `raw' is what the manifest file holds when the call reads it.
ReconcileManifest(kind, raw) ==
    IF raw = InvalidManifest
    THEN /\ cycles' = cycles
         /\ Return(kind, "error")
    ELSE LET desiredReplicas == ParseReplicas(raw)
             currentContainers == getContainersByApp("orch", ManifestName)
         IN Launch(NewOp(kind, ManifestName,
                         ToCreate(desiredReplicas, currentContainers),
                         ContainersToRemove(desiredReplicas, currentContainers)))

BeginReconcile(kind) == ReconcileManifest(kind, manifest)

\* ------------------------------------------------------------ the controller
\* KubeLiteOrchestrator.start
Start ==
    /\ timers + NumInFlight({"start"}) < MaxTimers
    /\ IF isRunning
       THEN /\ UNCHANGED <<isRunning, cycles, timers, reconcileInterval, alive>>
            /\ ret' = "none"
       ELSE /\ isRunning' = TRUE
            /\ BeginReconcile("start")
    /\ ExtNext(FALSE)
    /\ UNCHANGED <<manifest, docker, nextId, containers, failed>>

\* KubeLiteOrchestrator.stop
Stop ==
    /\ IF ~isRunning
       THEN UNCHANGED <<isRunning, timers, reconcileInterval>>
       ELSE /\ isRunning' = FALSE
            /\ IF reconcileInterval
               THEN /\ timers' = timers - 1
                    /\ reconcileInterval' = FALSE
               ELSE UNCHANGED <<timers, reconcileInterval>>
    /\ ret' = "none"
    /\ UNCHANGED <<manifest, docker, nextId, containers, failed, cycles, alive, extSince>>

\* an armed interval timer fires
Tick ==
    /\ timers > 0
    /\ BeginReconcile("tick")
    /\ ExtNext(FALSE)
    /\ UNCHANGED <<manifest, docker, nextId, containers, failed, isRunning>>

\* reconcileTool: a single-shot reconcile(manifestPath)
ManualReconcile ==
    /\ BeginReconcile("manual")
    /\ ExtNext(FALSE)
    /\ UNCHANGED <<manifest, docker, nextId, containers, failed, isRunning>>

\* KubeLiteOrchestrator.deployFromManifest
DeployManifest(raw) ==
    IF raw = InvalidManifest
    THEN /\ cycles' = cycles
         /\ Return("deploy", "error")
    ELSE Launch(NewOp("deploy", ManifestName, Max(0, ParseReplicas(raw)), <<>>))

DeployFromManifest ==
    /\ DeployManifest(manifest)
    /\ ExtNext(FALSE)
    /\ UNCHANGED <<manifest, docker, nextId, containers, failed, isRunning>>

\* KubeLiteOrchestrator.deleteApp
DeleteApp(appName) ==
    /\ Launch(NewOp("delete", appName, 0, getContainersByApp("orch", appName)))
    /\ ExtNext(FALSE)
    /\ UNCHANGED <<manifest, docker, nextId, containers, failed, isRunning>>

\* ------------------------------------------------------------ docker commands complete
\* The operation ends with res and its caller resumes
Finish(op, res) ==
    /\ cycles' = cycles (-) SetToBag({op})
    /\ Return(op.kind, res)

\* mutant: a reconcile cycle reads the registry and the manifest again before each
\* docker command
ContinueRefreshed(op, next) ==
    LET current == SelectSeq(containers'["orch"], LAMBDA id : AppLabel(id) = op.app)
        desired == IF manifest = InvalidManifest THEN Len(current) ELSE ParseReplicas(manifest)
        again == NewOp(op.kind, op.app, ToCreate(desired, current),
                       ContainersToRemove(desired, current))
    IN /\ cycles' = (cycles (-) SetToBag({op}))
                        (+) SetToBag({IF op.kind \in ReconcileKinds THEN again ELSE next})
       /\ Suspend

\* The operation issues its next docker command: `next' is what it then holds
Continue(op, next) ==
    /\ cycles' = (cycles (-) SetToBag({op})) (+) SetToBag({next})
    /\ Suspend

\* NosanaClient.deployContainer, called from the loops of reconcileApp and
\* deployFromManifest: docker run, docker inspect, containers.set.
\* outcome: "ok"; "run" (docker run fails); "inspect" (docker inspect fails after
\* the container was started).  Any failure is rethrown and ends the loop.
DeployContainerDone(op, outcome) ==
    /\ op.create > 0
    /\ \/ /\ outcome = "ok"
          /\ nextId <= MaxCreated
          /\ docker' = docker \cup {nextId}
          /\ nextId' = nextId + 1
          /\ containers' = [containers EXCEPT !["orch"] = MapSet(@, nextId)]
          /\ IF op.create = 1
             THEN Finish(op, "ok")
             ELSE Continue(op, [op EXCEPT !.create = @ - 1])
       \/ /\ outcome = "run"
          /\ UNCHANGED <<docker, nextId, containers>>
          /\ Finish(op, "error")
       \/ /\ outcome = "inspect"
          /\ nextId <= MaxCreated
          /\ docker' = docker \cup {nextId}
          /\ nextId' = nextId + 1
          /\ UNCHANGED containers
          /\ Finish(op, "error")
    /\ ExtNext(FALSE)
    /\ UNCHANGED <<manifest, failed, isRunning>>

\* auto-heal's loop: stopContainer throws at once for a container the registry no
\* longer holds, the loop catches that and goes on; what is left of the list from
\* the first container the registry holds
RECURSIVE SkipMissing(_, _)
SkipMissing(list, registry) ==
    IF list = <<>> \/ Head(list) \in Range(registry) THEN list
    ELSE SkipMissing(Tail(list), registry)

\* NosanaClient.stopContainer, called from the loops of reconcileApp, deleteApp
\* and auto-heal: containers.get, docker stop, docker rm, containers.delete.
\* outcome: "ok"; "stop" (docker stop fails); "rm" (docker rm fails after the
\* container was stopped).  reconcileApp and deleteApp rethrow a failure, auto-heal
\* catches it and goes on with the next container.
StopContainerDone(op, outcome) ==
    LET cl == ClientOf(op.kind)
        id == Head(op.stop)
        rest == Tail(op.stop)
    IN
    /\ op.create = 0 /\ op.stop # <<>>
    /\ \/ /\ outcome = "ok"
          /\ id \in docker
          /\ docker' = docker \ {id}
          /\ containers' = [containers EXCEPT ![cl] = Remove(@, id)]
          /\ failed' = IF cl = "heal" THEN failed \ {id} ELSE failed
       \/ /\ outcome = "stop"
          /\ UNCHANGED <<docker, containers, failed>>
       \/ /\ outcome = "rm"
          /\ id \in docker
          /\ docker' = docker \ {id}
          /\ UNCHANGED <<containers, failed>>
    /\ IF op.kind = "heal"
       THEN LET left == SkipMissing(rest, containers'[cl])
            IN IF left = <<>> THEN Finish(op, "ok")
               ELSE Continue(op, [op EXCEPT !.stop = left])
       ELSE IF outcome # "ok" THEN Finish(op, "error")
       ELSE IF rest = <<>> THEN Finish(op, "ok")
       ELSE IF Head(rest) \in Range(containers'[cl])
            THEN Continue(op, [op EXCEPT !.stop = rest])
       ELSE Finish(op, "error")
    /\ ExtNext(FALSE)
    /\ UNCHANGED <<manifest, nextId, isRunning>>

\* ------------------------------------------------------------ listings and the Phase 3 tools
RECURSIVE NewestFirst(_)
NewestFirst(S) ==
    IF S = {} THEN <<>>
    ELSE LET m == CHOOSE x \in S : \A y \in S : CreatedAt(y) <= CreatedAt(x)
         IN <<m>> \o NewestFirst(S \ {m})

RECURSIVE SetAll(_, _)
SetAll(registry, ids) ==
    IF ids = <<>> THEN registry ELSE SetAll(MapSet(registry, Head(ids)), Tail(ids))

\* mutant: docker ps without the label filter
ListedByDockerNoFilter == docker

\* what docker ps --filter "label=kubelite.managed=true" lists
ListedByDocker == {id \in docker : Managed(id)}

\* NosanaClient.getRunningContainers: every listed container is put into the
\* registry with status running.  Called by getStatus (orchestrator's client) and
\* by the health check (heal client).
getRunningContainers(cl) ==
    /\ containers' = [containers EXCEPT ![cl] = SetAll(@, NewestFirst(ListedByDocker))]
    /\ failed' = IF cl = "heal" THEN failed \ ListedByDocker ELSE failed

\* statusTool: KubeLiteOrchestrator.getStatus
GetStatus ==
    /\ getRunningContainers("orch")
    /\ ret' = "none"
    /\ UNCHANGED <<manifest, docker, nextId, isRunning, timers, reconcileInterval,
                   cycles, alive, extSince>>

\* healthCheckTool
HealthCheck ==
    /\ getRunningContainers("heal")
    /\ ret' = "none"
    /\ UNCHANGED <<manifest, docker, nextId, isRunning, timers, reconcileInterval,
                   cycles, alive, extSince>>

\* simulateFailureTool: the first running container of the application fails
SimulateFailure(appName) ==
    LET running == SelectSeq(getContainersByApp("heal", appName), LAMBDA id : id \notin failed)
    IN
    /\ running # <<>>
    /\ failed' = failed \cup {Head(running)}
    /\ ret' = "none"
    /\ UNCHANGED <<manifest, docker, nextId, containers, isRunning, timers,
                   reconcileInterval, cycles, alive, extSince>>

\* autoHealTool: the failed containers of one application, or of all ("all")
\* mutant: the selection without the status filter
containersToHealAny(target) ==
    IF target = "all" THEN containers["heal"] ELSE getContainersByApp("heal", target)

containersToHeal(target) ==
    IF target = "all" THEN getFailedContainers("heal")
    ELSE SelectSeq(getContainersByApp("heal", target), LAMBDA id : id \in failed)

AutoHeal(target) ==
    /\ Launch(NewOp("heal", target, 0, containersToHeal(target)))
    /\ ExtNext(FALSE)
    /\ UNCHANGED <<manifest, docker, nextId, containers, failed, isRunning>>

\* ------------------------------------------------------------ the environment
\* the manifest file is edited
EditManifest(r) ==
    /\ r # manifest
    /\ manifest' = r
    /\ ret' = "none"
    /\ UNCHANGED <<docker, nextId, containers, failed, isRunning, timers,
                   reconcileInterval, cycles, alive>>
    /\ ExtNext(TRUE)

\* a managed container of the target application leaves the runtime on its own
\* (it exits, or it is removed with docker, outside the runtime client)
ContainerDisappears(id) ==
    /\ id \in docker
    /\ Managed(id) /\ AppLabel(id) = ManifestName
    /\ docker' = docker \ {id}
    /\ ret' = "none"
    /\ UNCHANGED <<manifest, nextId, containers, failed, isRunning, timers,
                   reconcileInterval, cycles, alive, extSince>>

\* ---- the controller and its loop
Next ==
    \/ StoreUnchanged /\ AiUnchanged /\ alive /\ Start
    \/ StoreUnchanged /\ AiUnchanged /\ alive /\ Stop
    \/ StoreUnchanged /\ AiUnchanged /\ alive /\ Tick
    \/ StoreUnchanged /\ AiUnchanged /\ alive /\ ManualReconcile
    \/ StoreUnchanged /\ AiUnchanged /\ alive /\ \E op \in BagToSet(cycles), o \in {"ok", "run"} : DeployContainerDone(op, o)
    \/ StoreUnchanged /\ AiUnchanged /\ alive /\ \E op \in BagToSet(cycles), o \in {"ok", "stop"} : StopContainerDone(op, o)
    \/ StoreUnchanged /\ AiUnchanged /\ alive /\ \E r \in (1..MaxReplicas) \cup {InvalidManifest} : EditManifest(r)

Spec == Init /\ [][Next]_vars

\* no operation is suspended: the caller of the tools waits for one call to return
\* before it makes the next
Idle == alive /\ cycles = EmptyBag

\* ---- the tools that create and stop containers, called one at a time, without the loop
ToolsNext ==
    \/ StoreUnchanged /\ AiUnchanged /\ Idle /\ ManualReconcile
    \/ StoreUnchanged /\ AiUnchanged /\ Idle /\ DeployFromManifest
    \/ StoreUnchanged /\ AiUnchanged /\ Idle /\ \E a \in Apps : DeleteApp(a)
    \/ StoreUnchanged /\ AiUnchanged /\ Idle /\ \E a \in Apps \cup {"all"} : AutoHeal(a)
    \/ StoreUnchanged /\ AiUnchanged /\ Idle /\ GetStatus
    \/ StoreUnchanged /\ AiUnchanged /\ Idle /\ HealthCheck
    \/ StoreUnchanged /\ AiUnchanged /\ Idle /\ \E a \in Apps : SimulateFailure(a)
    \/ StoreUnchanged /\ AiUnchanged /\ Idle /\ \E r \in (0..MaxReplicas) \cup {InvalidManifest} : EditManifest(r)
    \/ StoreUnchanged /\ AiUnchanged /\ alive /\ \E op \in BagToSet(cycles), o \in {"ok", "run"} : DeployContainerDone(op, o)
    \/ StoreUnchanged /\ AiUnchanged /\ alive /\ \E op \in BagToSet(cycles), o \in {"ok", "stop"} : StopContainerDone(op, o)

ToolsSpec == Init /\ [][ToolsNext]_vars

\* ---- the orchestrator's tools called one at a time, every docker command may fail
FaultsNext ==
    \/ StoreUnchanged /\ AiUnchanged /\ Idle /\ ManualReconcile
    \/ StoreUnchanged /\ AiUnchanged /\ Idle /\ DeployFromManifest
    \/ StoreUnchanged /\ AiUnchanged /\ Idle /\ \E a \in Apps : DeleteApp(a)
    \/ StoreUnchanged /\ AiUnchanged /\ Idle /\ GetStatus
    \/ StoreUnchanged /\ AiUnchanged /\ Idle /\ \E r \in (0..MaxReplicas) \cup {InvalidManifest} : EditManifest(r)
    \/ StoreUnchanged /\ AiUnchanged /\ alive /\ \E op \in BagToSet(cycles), o \in {"ok", "run", "inspect"} :
                    DeployContainerDone(op, o)
    \/ StoreUnchanged /\ AiUnchanged /\ alive /\ \E op \in BagToSet(cycles), o \in {"ok", "stop", "rm"} :
                    StopContainerDone(op, o)

FaultsSpec == Init /\ [][FaultsNext]_vars

\* ---- the loop with a runtime that loses containers and with the health tools,
\* one operation at a time, every docker command succeeds
LoopNext ==
    \/ StoreUnchanged /\ AiUnchanged /\ Idle /\ Start
    \/ StoreUnchanged /\ AiUnchanged /\ alive /\ Stop
    \/ StoreUnchanged /\ AiUnchanged /\ Idle /\ Tick
    \/ StoreUnchanged /\ AiUnchanged /\ alive /\ \E op \in BagToSet(cycles) : DeployContainerDone(op, "ok")
    \/ StoreUnchanged /\ AiUnchanged /\ alive /\ \E op \in BagToSet(cycles) : StopContainerDone(op, "ok")
    \/ StoreUnchanged /\ AiUnchanged /\ Idle /\ \E id \in docker : ContainerDisappears(id)
    \/ StoreUnchanged /\ AiUnchanged /\ Idle /\ HealthCheck
    \/ StoreUnchanged /\ AiUnchanged /\ Idle /\ \E a \in Apps : SimulateFailure(a)
    \/ StoreUnchanged /\ AiUnchanged /\ Idle /\ \E r \in 1..MaxReplicas : EditManifest(r)

LoopSpec == Init /\ [][LoopNext]_vars

\* ------------------------------------------------------------ the desired-state store
\* StateManager: a Map from application name to KubeLiteApp.  An entry of
\* `applications' is one key of the Map with its value.
\* the orchestrator and the runtime are left alone by the store
RuntimeUnchanged ==
    UNCHANGED <<manifest, docker, nextId, containers, failed, isRunning,
                reconcileInterval, timers, cycles, alive, ret, extSince>>

\* command.replicas || 1
ReplicasOrDefault(replicas) == IF replicas = NoReplicas \/ replicas = 0 THEN 1 ELSE replicas
\* command.ports || []
PortsOrDefault(ports) == IF ports = NoPorts THEN <<>> ELSE ports[1]

\* Map.has, Map.get (the set of values under the key: empty when undefined),
\* Map.set and Map.delete on `applications'
getApplication(name) == {e.app : e \in {x \in applications : x.key = name}}
\* mutant: Map.set that keeps the entry already under the key
SetApplicationKeepOld(name, app) == applications \cup {[key |-> name, app |-> app]}

SetApplication(name, app) ==
    {e \in applications : e.key # name} \cup {[key |-> name, app |-> app]}
\* mutant: Map.delete that clears the Map
DeleteApplicationAll(name) == {}

DeleteApplication(name) == {e \in applications : e.key # name}
\* mutant: the enumeration leaves the applications out
getNoApplications == {}

getAllApplications == {e.app : e \in applications}

\* what applyCommand returns: success, which message, and the applications the
\* message or the app field speaks of
Result(success, message, apps) == [success |-> success, message |-> message, apps |-> apps]

\* StateManager.handleDeploy
handleDeploy(command) ==
    IF command.appName = NoName \/ command.image = NoImage
    THEN /\ result' = Result(FALSE, "deploy requires name and image", {})
         /\ UNCHANGED applications
    ELSE LET app == [name |-> command.appName,
                     image |-> command.image,
                     replicas |-> ReplicasOrDefault(command.replicas),
                     ports |-> PortsOrDefault(command.ports)]
         IN /\ applications' = SetApplication(command.appName, app)
            /\ result' = Result(TRUE, "created", {app})

\* mutant: the comparison the other way round
ScaleActionSwapped(replicas, oldReplicas) ==
    IF replicas < oldReplicas THEN "scaled up"
    ELSE IF replicas > oldReplicas THEN "scaled down"
    ELSE "maintained"

\* the message of handleScale: how the new count compares with the old one
ScaleAction(replicas, oldReplicas) ==
    IF replicas > oldReplicas THEN "scaled up"
    ELSE IF replicas < oldReplicas THEN "scaled down"
    ELSE "maintained"

\* StateManager.handleScale
handleScale(command) ==
    IF command.appName = NoName \/ command.replicas = NoReplicas
    THEN /\ result' = Result(FALSE, "scale requires name and count", {})
         /\ UNCHANGED applications
    ELSE IF getApplication(command.appName) = {}
    THEN /\ result' = Result(FALSE, "not found", {})
         /\ UNCHANGED applications
    ELSE LET existingApp == CHOOSE app \in getApplication(command.appName) : TRUE
             scaled == [existingApp EXCEPT !.replicas = command.replicas]
         IN /\ applications' = SetApplication(command.appName, scaled)
            /\ result' = Result(TRUE, ScaleAction(command.replicas, existingApp.replicas),
                                 {scaled})

\* StateManager.handleDelete
handleDelete(command) ==
    IF command.appName = NoName
    THEN /\ result' = Result(FALSE, "delete requires name", {})
         /\ UNCHANGED applications
    ELSE IF getApplication(command.appName) = {}
    THEN /\ result' = Result(FALSE, "not found", {})
         /\ UNCHANGED applications
    ELSE /\ applications' = DeleteApplication(command.appName)
         /\ result' = Result(TRUE, "deleted", {})

\* StateManager.handleStatus
handleStatus ==
    /\ result' = IF Cardinality(applications) = 0
                 THEN Result(TRUE, "no applications", {})
                 ELSE Result(TRUE, "current applications", getAllApplications)
    /\ UNCHANGED applications

\* StateManager.applyCommand: what it does to the store
ApplyToStore(command) ==
    /\ CASE command.intent = "deploy" -> handleDeploy(command)
         [] command.intent = "scale" -> handleScale(command)
         [] command.intent = "delete" -> handleDelete(command)
         [] command.intent = "status" -> handleStatus
         [] OTHER -> /\ result' = Result(FALSE, "unknown intent", {})
                     /\ UNCHANGED applications
    /\ applied' = command

\* StateManager.applyCommand, called on its own
applyCommand(command) ==
    /\ ApplyToStore(command)
    /\ UNCHANGED before
    /\ RuntimeUnchanged
    /\ AiUnchanged

\* ---- the store alone, under every command
StoreNext ==
    \/ \E command \in DeployCommands : command.intent = "deploy" /\ applyCommand(command)
    \/ \E command \in ScaleCommands : command.intent = "scale" /\ applyCommand(command)
    \/ \E command \in DeleteCommands : command.intent = "delete" /\ applyCommand(command)
    \/ \E command \in OtherCommands : command.intent = "status" /\ applyCommand(command)
    \/ \E command \in OtherCommands : command.intent # "status" /\ applyCommand(command)

StoreSpec == Init /\ [][StoreNext]_vars

\* ------------------------------------------------------------ what a step did
AppCount == Len(getContainersByApp("orch", ManifestName))

\* the step suspends a new operation op on its first docker command
Launched(op) == cycles' = cycles (+) SetToBag({op})
\* the pending docker command of op completes and op issues its next one, as `next'
Stepped(op, next) == cycles' = (cycles (-) SetToBag({op})) (+) SetToBag({next})
\* the pending docker command of op completes and op returns
Ended(op) == cycles' = cycles (-) SetToBag({op})

ReconcileOps(bag) == {op \in BagToSet(bag) : op.kind \in ReconcileKinds}

\* the containers the cycle has still to create and to stop close the gap between
\* the registry and the manifest: nothing else has changed either since it began
Balance(op) ==
    /\ manifest # InvalidManifest
    /\ AppCount + op.create - Len(op.stop) = ParseReplicas(manifest)

\* ------------------------------------------------------------ C1
\* C1: a reconcile cycle that runs to completion without error and without
\* another operation changing the registry or the manifest under it leaves as
\* many containers of the application as the manifest asks for.  When it begins
\* it has exactly desired-actual creates to issue and nothing to stop
\* (actual < desired), or exactly actual-desired stops and nothing to create
\* (actual > desired); with actual = desired it returns without a docker
\* command.  Each completed command closes the gap by one.
C1_ReconcileConverges ==
    [][ /\ \A op \in ReconcileOps(cycles') :
              Launched(op) =>
                  /\ Balance(op)'
                  /\ (op.create > 0) # (op.stop # <<>>)
                  /\ AppCount # ParseReplicas(manifest)
        /\ \A op \in ReconcileOps(cycles) :
              /\ \A next \in ReconcileOps(cycles') :
                    (Stepped(op, next) /\ next # op /\ Balance(op)) => Balance(next)'
              /\ (Ended(op) /\ ret' = "ok" /\ Balance(op)) =>
                    AppCount' = ParseReplicas(manifest)
      ]_vars

\* C1 witness: a cycle that had two containers to create has just returned
\* without error and the application has the two containers the manifest asks for
C1_Witness ==
    /\ ret = "ok"
    /\ cycles = EmptyBag
    /\ manifest = 2
    /\ AppCount = 2

IsAscending(s) == \A i, j \in 1..Len(s) : i < j => CreatedAt(s[i]) <= CreatedAt(s[j])

\* C3: a reconcile cycle that must remove k = actual - desired > 0 containers
\* selects k distinct containers of the application, none of them newer than a
\* container it keeps, goes through them oldest first, and each of its stop
\* commands removes the selected container and no other.
C3_OldestFirst ==
    [][ /\ \A op \in ReconcileOps(cycles') :
              (Launched(op) /\ op.stop # <<>>) =>
                  LET current == Range(getContainersByApp("orch", ManifestName))
                      chosen == Range(op.stop)
                  IN /\ Len(op.stop) = AppCount - ParseReplicas(manifest)
                     /\ Cardinality(chosen) = Len(op.stop)
                     /\ chosen \subseteq current
                     /\ \A x \in chosen, y \in current \ chosen : CreatedAt(x) < CreatedAt(y)
                     /\ IsAscending(op.stop)
        /\ \A op \in ReconcileOps(cycles) :
              (op.stop # <<>> /\ (Ended(op) \/ \E next \in ReconcileOps(cycles') :
                                                  next # op /\ Stepped(op, next))) =>
                  /\ Range(containers["orch"]) \ Range(containers'["orch"]) \subseteq {Head(op.stop)}
                  /\ docker \ docker' \subseteq {Head(op.stop)}
      ]_vars

\* C3 witness: three containers created at t1 < t2 < t3, one to remove: the
\* cycle is stopping the oldest and only that one
C3_Witness ==
    /\ getContainersByApp("orch", ManifestName) = <<1, 2, 3>>
    /\ \E op \in ReconcileOps(cycles) : op.stop = <<1>>

\* ------------------------------------------------------------ C4
\* C4 (as claimed): at most one tick-driven reconcile cycle is in flight at any time
C4_SingleTickCycle == NumInFlight({"tick"}) <= 1

\* ------------------------------------------------------------ C5
\* C5 (as claimed): with the manifest unchanged while cycles are in flight, no
\* create of a reconcile cycle takes the application above desired.replicas
C5_NoDuplicateCreates ==
    [][ (~extSince /\ manifest # InvalidManifest /\ AppCount' > AppCount) =>
            AppCount' <= ParseReplicas(manifest) ]_vars

\* ------------------------------------------------------------ C6
\* C6 (as claimed): no tick begins a reconcile cycle while the controller is
\* stopped, and stop() leaves the cycles in flight alone
C6_NoTickAfterStop ==
    [][ /\ Tick => isRunning
        /\ Stop => cycles' = cycles ]_vars

\* ------------------------------------------------------------ C7
\* C7 (as claimed): whenever the controller is Running and no start() call is
\* still executing, the periodic timer is armed
C7_RunningHasTimer ==
    (isRunning /\ NumInFlight({"start"}) = 0) => (reconcileInterval /\ timers > 0)

\* ------------------------------------------------------------ C8
\* C8: a tick-driven cycle that fails is swallowed by the interval callback: the
\* process goes on, isRunning and the timers are as they were, and an armed timer
\* can fire again and begin a cycle.
C8_TickFailureSwallowed ==
    /\ [][ ret' = "caught" =>
              /\ alive'
              /\ isRunning' = isRunning
              /\ timers' = timers
              /\ reconcileInterval' = reconcileInterval ]_vars
    /\ []((ret = "caught" /\ timers > 0 /\ BagCardinality(cycles) < MaxCycles) =>
              ENABLED (alive /\ Tick /\ StoreUnchanged /\ AiUnchanged))

\* C8 witness: a tick-driven cycle has just failed while the controller is
\* Running with its timer armed
C8_Witness ==
    /\ ret = "caught"
    /\ isRunning /\ reconcileInterval /\ timers > 0
    /\ alive

\* ------------------------------------------------------------ C9
\* C9 (as claimed): a reconcile cycle that has containers to create attempts all
\* of them: it never returns while more than the create in progress is left
C9_AllCreatesAttempted ==
    [][ \A op \in ReconcileOps(cycles) : (Ended(op) /\ op.create > 0) => op.create = 1 ]_vars

\* ------------------------------------------------------------ C10
\* C10: every container an operation has selected for stopping carries the
\* managed label, and for reconcile and deleteApp also the label of the target
\* application; every container that leaves docker carries the managed label.
C10_OnlyManagedStopped ==
    /\ [](\A op \in BagToSet(cycles) : \A id \in Range(op.stop) :
              /\ Managed(id)
              /\ op.kind \in ReconcileKinds \cup {"delete"} => AppLabel(id) = op.app)
    /\ [][ \A id \in docker \ docker' : Managed(id) ]_vars

\* C10 witness: deleteApp("web") is stopping web containers while the registry
\* also holds the db container and docker runs the unmanaged workload
C10_Witness ==
    /\ \E op \in BagToSet(cycles) : op.kind = "delete" /\ op.app = "web" /\ op.stop # <<>>
    /\ 0 \in Range(containers["orch"])
    /\ -1 \in docker

\* ------------------------------------------------------------ the natural-language command tool
\* naturalLanguageDeployTool on the application ManifestName: the store is
\* updated, the manifest file is generated from the store and written, and
\* the orchestrator is called on that file.

\* StateManager.generateManifest: spec.replicas of the generated manifest
generateManifest(store, appName) ==
    LET app == CHOOSE a \in {e.app : e \in {x \in store : x.key = appName}} : TRUE
    IN app.replicas

\* intent deploy: addOrUpdateApplication, generateManifest, deployFromManifest
NaturalLanguageDeploy(image, replicas) ==
    /\ before' = applications
    /\ ApplyToStore(Command("deploy", ManifestName, image, replicas, NoPorts))
    /\ manifest' = generateManifest(applications', ManifestName)
    /\ DeployManifest(manifest')
    /\ ExtNext(FALSE)
    /\ UNCHANGED <<docker, nextId, containers, failed, isRunning>>

\* intent scale: getApplication, scaleApplicationInState, generateManifest, reconcile
NaturalLanguageScale(replicas) ==
    IF getApplication(ManifestName) = {}
    THEN UNCHANGED vars
    ELSE /\ before' = applications
         /\ ApplyToStore(Command("scale", ManifestName, NoImage, replicas, NoPorts))
         /\ manifest' = generateManifest(applications', ManifestName)
         /\ ReconcileManifest("manual", manifest')
         /\ ExtNext(FALSE)
         /\ UNCHANGED <<docker, nextId, containers, failed, isRunning>>

\* intent delete: deleteApplicationFromState, deleteApp
NaturalLanguageDelete ==
    /\ before' = applications
    /\ ApplyToStore(Command("delete", ManifestName, NoImage, NoReplicas, NoPorts))
    /\ IF result'.success
       THEN Launch(NewOp("delete", ManifestName, 0, getContainersByApp("orch", ManifestName)))
       ELSE /\ UNCHANGED <<cycles, timers, reconcileInterval, alive>>
            /\ ret' = "none"
    /\ ExtNext(FALSE)
    /\ UNCHANGED <<manifest, docker, nextId, containers, failed, isRunning>>

\* ---- the command tool, one command at a time, every docker command succeeds
CommandNext ==
    \/ AiUnchanged /\ Idle /\ \E i \in Images, r \in 0..MaxReplicas : NaturalLanguageDeploy(i, r)
    \/ AiUnchanged /\ Idle /\ \E r \in 0..MaxReplicas : NaturalLanguageScale(r)
    \/ AiUnchanged /\ Idle /\ NaturalLanguageDelete
    \/ StoreUnchanged /\ AiUnchanged /\ alive /\ \E op \in BagToSet(cycles) : DeployContainerDone(op, "ok")
    \/ StoreUnchanged /\ AiUnchanged /\ alive /\ \E op \in BagToSet(cycles) : StopContainerDone(op, "ok")

CommandSpec == Init /\ [][CommandNext]_vars

\* ---- the command tool, one command at a time, docker run, docker stop and docker rm
\* may fail
CommandFaultsNext ==
    \/ AiUnchanged /\ Idle /\ \E i \in Images, r \in 0..MaxReplicas : NaturalLanguageDeploy(i, r)
    \/ AiUnchanged /\ Idle /\ \E r \in 0..MaxReplicas : NaturalLanguageScale(r)
    \/ AiUnchanged /\ Idle /\ NaturalLanguageDelete
    \/ StoreUnchanged /\ AiUnchanged /\ alive /\
            \E op \in BagToSet(cycles), o \in {"ok", "run"} : DeployContainerDone(op, o)
    \/ StoreUnchanged /\ AiUnchanged /\ alive /\
            \E op \in BagToSet(cycles), o \in {"ok", "stop", "rm"} : StopContainerDone(op, o)

CommandFaultsSpec == Init /\ [][CommandFaultsNext]_vars

\* ------------------------------------------------------------ the runtime seen from outside
\* the managed containers of the target application that run in docker, and
\* those of them no client has recorded as failed
RuntimeContainers == {id \in docker : Managed(id) /\ AppLabel(id) = ManifestName}
RuntimeCount == Cardinality(RuntimeContainers)
NonFailedCount == Cardinality(RuntimeContainers \ failed)

\* the step begins a reconcile cycle that has containers to create
LaunchedCreates == \E op \in ReconcileOps(cycles') : Launched(op) /\ op.create > 0

\* ------------------------------------------------------------ C11
\* C11 (as claimed): a tick of the Running controller that finds fewer managed
\* containers of the target in the runtime than the manifest asks for, with no
\* cycle in flight, begins a cycle that recreates the missing ones
C11_TickRecreatesMissing ==
    [][ (/\ Tick
         /\ isRunning /\ cycles = EmptyBag
         /\ manifest # InvalidManifest
         /\ RuntimeCount < ParseReplicas(manifest)) => LaunchedCreates ]_vars

\* ------------------------------------------------------------ C12
\* C12 (as claimed): a tick of the Running controller that finds fewer non-failed
\* containers of the target than the manifest asks for, every container of the
\* registry still being in the runtime and no cycle in flight, begins a cycle
\* that creates the replacements
C12_TickReplacesFailed ==
    [][ (/\ Tick
         /\ isRunning /\ cycles = EmptyBag
         /\ manifest # InvalidManifest
         /\ RuntimeCount = AppCount
         /\ NonFailedCount < ParseReplicas(manifest)) => LaunchedCreates ]_vars

\* ------------------------------------------------------------ C13
\* C13 (as claimed): the reconcile call that follows an auto-heal which stopped a
\* container of the application, leaving it short of its desired count, begins a
\* cycle that creates the replacement
C13_ReconcileAfterHealRecreates ==
    [][ (/\ ManualReconcile
         /\ manifest # InvalidManifest
         /\ RuntimeCount < ParseReplicas(manifest)) => LaunchedCreates ]_vars

\* ------------------------------------------------------------ C14
\* C14 (as claimed): whenever the command tool has no command in progress,
\* every command so far having succeeded, the target application has as many
\* managed containers in the runtime as the store's replica count for it, and
\* none when the store does not hold it
C14_ContainersMatchStore ==
    cycles = EmptyBag =>
        RuntimeCount = IF getApplication(ManifestName) = {} THEN 0
                       ELSE generateManifest(applications, ManifestName)

\* ------------------------------------------------------------ the store: what a step did
\* the applications a store holds under a name, and the entries under other names
Lookup(store, name) == {e.app : e \in {x \in store : x.key = name}}
Others(store, name) == {e \in store : e.key # name}

\* ------------------------------------------------------------ C15
\* C15 (as claimed): after a deploy command with name N, image I and a replica
\* count r >= 0 the store holds under N an application with image I and r
\* replicas; with no replica count, 1 replica
C15_DeployStoresRequested ==
    [][ (/\ applied'.intent = "deploy"
         /\ applied'.appName # NoName /\ applied'.image # NoImage
         /\ (applied'.replicas >= 0 \/ applied'.replicas = NoReplicas)) =>
            \E app \in Lookup(applications', applied'.appName) :
                /\ app.image = applied'.image
                /\ app.replicas = IF applied'.replicas = NoReplicas THEN 1 ELSE applied'.replicas
      ]_vars

\* ------------------------------------------------------------ C16
\* C16 (as claimed): every application in the store has a replica count >= 0
C16_ReplicasNonNegative == \A e \in applications : e.app.replicas >= 0

C19_DeleteOnlyPresent ==
    [][ applied'.intent = "delete" =>
          LET N == applied'.appName
              present == N # NoName /\ Lookup(applications, N) # {}
          IN /\ result'.success <=> present
             /\ present =>
                   /\ Lookup(applications', N) = {}
                   /\ Others(applications', N) = Others(applications, N)
             /\ ~present => applications' = applications
      ]_vars

\* C19 witness: web has just been deleted and db is still in the store
C19_Witness ==
    /\ applied.intent = "delete" /\ applied.appName = "web"
    /\ result.success
    /\ Lookup(applications, "web") = {}
    /\ Lookup(applications, "db") # {}

\* ------------------------------------------------------------ C20
\* C20: a status, help or unrecognized command leaves the store as it was;
\* status succeeds, with the message for an empty store when it holds nothing
\* and with every application of the store otherwise
C20_StatusReadOnly ==
    [][ applied'.intent \notin {"deploy", "scale", "delete"} =>
          /\ applications' = applications
          /\ applied'.intent = "status" =>
                /\ result'.success
                /\ applications = {} => result'.message = "no applications"
                /\ applications # {} =>
                      /\ result'.message = "current applications"
                      /\ result'.apps = {e.app : e \in applications}
          /\ applied'.intent # "status" => ~result'.success
      ]_vars

\* C20 witness: status has just enumerated a store of two applications
C20_Witness ==
    /\ applied.intent = "status"
    /\ result.success
    /\ Cardinality(result.apps) = 2
    /\ Cardinality(applications) = 2

\* ------------------------------------------------------------ the command parser
\* a value that || replaces by its right-hand side
Falsy(v) ==
    \/ v.type \in {"undefined", "NaN"}
    \/ v.type = "number" /\ v.num = 0
    \/ v.type = "string" /\ v.str = ""

\* a || b
OrElse(a, b) == IF Falsy(a) THEN b ELSE a

\* the number Math.min and Math.max take for an argument: a text that is no
\* numeral, and undefined, are NaN
ToNumber(v) ==
    IF v.type = "number" THEN v
    ELSE IF v.type = "string" /\ v.str = "" THEN JsNumber(0)
    ELSE NaN

\* Math.max(0, Math.min(1, confidence || 0.5)): Math.min and Math.max give NaN
\* when an argument is NaN
ClampConfidence(confidence) ==
    LET MathMin(a, b) ==
            LET x == ToNumber(a)
                y == ToNumber(b)
            IN IF x = NaN \/ y = NaN THEN NaN ELSE IF x.num < y.num THEN x ELSE y
        MathMax(a, b) ==
            LET x == ToNumber(a)
                y == ToNumber(b)
            IN IF x = NaN \/ y = NaN THEN NaN ELSE IF x.num > y.num THEN x ELSE y
    IN MathMax(JsNumber(0),
               MathMin(JsNumber(One), OrElse(confidence, JsNumber(DefaultConfidence))))

\* mutant: the characters are removed, image.replace(/[^a-zA-Z0-9]/g, '')
RemoveNonAlphanumeric(image) ==
    CASE image = "redis:7" -> "redis7"
      [] image = "my/api" -> "myapi"
      [] OTHER -> image

\* image.replace(/[^a-zA-Z0-9]/g, '-')
ReplaceNonAlphanumeric(image) ==
    CASE image = "redis:7" -> "redis-7"
      [] image = "my/api" -> "my-api"
      [] OTHER -> image

\* `${image.replace(...)}-app`
AutoAppName(image) == ReplaceNonAlphanumeric(image) \o "-app"

\* the catch block of parseCommand
ParseFailed(message) ==
    ParsedCommand(JsString("help"), Undefined, Undefined, Undefined, Undefined,
                  JsNumber(FailedConfidence),
                  JsString("Failed to parse command: " \o message), "")

\* what the try block throws before it has a parsed object, "" when it throws nothing
ParseError(response) ==
    CASE response.kind = "error" -> "Ollama API error: 500"
      [] response.kind = "notext" -> "Cannot read properties of undefined (reading 'trim')"
      [] response.kind = "text" -> "Unexpected token"
      [] response.kind = "null" -> "Cannot read properties of null (reading 'intent')"
      [] OTHER -> ""

\* "Validate and sanitize the response"
Sanitize(object) ==
    ParsedCommand(OrElse(object.intent, JsString("help")),
                  IF object.appName = JsString("null") THEN Undefined ELSE object.appName,
                  IF object.image = JsString("null") THEN Undefined ELSE object.image,
                  OrElse(object.replicas, Undefined),
                  OrElse(object.ports, Undefined),
                  ClampConfidence(object.confidence),
                  OrElse(object.reasoning, JsString("LLM analysis completed")),
                  "")

\* CommandParser.parseCommand: the text of the service is matched against /\{.*\}/s,
\* parsed as JSON, sanitized, and a deploy command without a name gets one from its
\* image; whatever is thrown on the way is caught.  The input only goes into the prompt.
parseCommand(input, response) ==
    IF ParseError(response) # "" THEN ParseFailed(ParseError(response))
    ELSE LET sanitized == Sanitize(response.object)
         IN IF /\ sanitized.intent = JsString("deploy")
               /\ Falsy(sanitized.appName)
               /\ ~Falsy(sanitized.image)
            THEN IF sanitized.image.type # "string"
                 THEN ParseFailed("result.image.replace is not a function")
                 ELSE [sanitized EXCEPT !.appName = JsString(AutoAppName(sanitized.image.str)),
                                        !.note = AutoAppName(sanitized.image.str)]
            ELSE sanitized

\* ---- what the parser is given
Inputs == {"deploy 3 nginx containers", "Create a redis app", "scale web to 2",
           "remove web", "show me what is running", "hello"}

ConfidenceValues ==
    {Undefined, JsString("high"), JsNumber(0 - One), JsNumber(0), JsNumber(90), JsNumber(5 * One)}

\* the JSON objects the service answers with
ParserObjects ==
    LET IntentValues ==
            {Undefined, JsNumber(42)} \cup
            {JsString(i) : i \in {"deploy", "scale", "delete", "status", "help",
                                  "stop", "restart"}}
        AppNameValues == {Undefined, JsString("null"), JsString("web")}
        ImageValues == {Undefined, JsString("null"), JsString("nginx"),
                        JsString("redis:7"), JsNumber(5)}
        ReplicasValues == {Undefined, JsNumber(0), JsNumber(2)}
        ReasoningValues == {Undefined, JsString("the user names an image")}
    IN {[NoObject EXCEPT !.intent = i, !.appName = n, !.image = im, !.replicas = r,
                         !.confidence = c, !.reasoning = t] :
           i \in IntentValues, n \in AppNameValues, im \in ImageValues,
           r \in ReplicasValues, c \in ConfidenceValues, t \in ReasoningValues}

ParserResponses ==
    {Response(k, NoObject) : k \in {"error", "notext", "text", "null"}}
        \cup {Response("object", o) : o \in ParserObjects}
        \cup {Response("prose", [NoObject EXCEPT !.intent = JsString("status"), !.ports = JsValue("array", 0, "")])}

\* one parseCommand call
ParseCommand(input, response) ==
    /\ prompted' = [input |-> input, response |-> response]
    /\ parsed' = parseCommand(input, response)
    /\ UNCHANGED <<analysis, toolCall, converted>>
    /\ RuntimeUnchanged
    /\ StoreUnchanged

\* the parser keeps nothing from one call to the next: a behaviour makes one call
ParserNext ==
    \/ prompted = NoPrompt /\ \E input \in Inputs, response \in ParserResponses :
            response.kind \notin {"object", "prose"} /\ ParseCommand(input, response)
    \/ prompted = NoPrompt /\ \E input \in Inputs, response \in ParserResponses :
            response.kind \in {"object", "prose"} /\ ParseCommand(input, response)

ParserSpec == Init /\ [][ParserNext]_vars

\* a parseCommand call has returned
Parsed == prompted # NoPrompt

\* ---- the rule-based parser of test-phase2.cjs, which stands in for CommandParser there
\* input.toLowerCase().trim().includes(word)
Includes(input, word) ==
    word \in CASE input = "deploy 3 nginx containers" -> {"deploy"}
               [] input = "Create a redis app" -> {"create"}
               [] input = "scale web to 2" -> {"scale"}
               [] input = "remove web" -> {"remove"}
               [] input = "show me what is running" -> {"show"}
               [] OTHER -> {}

\* the intent its chain of patterns gives
RuleBasedIntent(input) ==
    IF Includes(input, "deploy") \/ Includes(input, "create") THEN "deploy"
    ELSE IF Includes(input, "scale") THEN "scale"
    ELSE IF Includes(input, "delete") \/ Includes(input, "remove") THEN "delete"
    ELSE IF Includes(input, "status") \/ Includes(input, "show") THEN "status"
    ELSE "help"

\* ------------------------------------------------------------ C21
\* the reasoning texts of the catch block
FailureReasonings ==
    {ParseFailed(ParseError(Response(k, NoObject))).reasoning :
        k \in {"error", "notext", "text", "null"}}
        \cup {ParseFailed("result.image.replace is not a function").reasoning}

\* a JSON object that lacks a field every ParsedCommand has (intent, confidence), or
\* that has a field of the wrong type
IllFormed(object) ==
    \/ object.intent.type # "string"
    \/ object.confidence.type # "number"
    \/ object.image.type \notin {"string", "undefined"}

\* the failure modes of a call: the call errors, the text is no JSON object, the
\* object is ill-formed
FailureMode(response) ==
    \/ ParseError(response) # ""
    \/ response.kind \in {"object", "prose"} /\ IllFormed(response.object)

\* C21 (as claimed): every failure mode of the text-generation service yields a
\* command with intent help, a confidence below the clarification threshold and a
\* reasoning that describes the failure
C21_FailuresDegradeToHelp ==
    (Parsed /\ FailureMode(prompted.response)) =>
        /\ parsed.intent = JsString("help")
        /\ parsed.confidence.type = "number"
        /\ parsed.confidence.num < ClarifyThreshold
        /\ parsed.reasoning \in FailureReasonings

\* ------------------------------------------------------------ C22
\* C22 (as claimed): when the service is unavailable or its output cannot be parsed,
\* the returned intent is the one the keywords of the input give
C22_FallbackKeywords ==
    (Parsed /\ ParseError(prompted.response) # "") =>
        parsed.intent = JsString(RuleBasedIntent(prompted.input))

\* ------------------------------------------------------------ C23
\* the value of [0,1] nearest to c
Nearest(c) == IF c > One THEN One ELSE IF c < 0 THEN 0 ELSE c

\* C23 (as claimed): whatever confidence the service gives, the returned confidence
\* is a number of [0,1]; a given number above 1 becomes 1, one below 0 becomes 0,
\* one of [0,1], 0 included, is kept
C23_ConfidenceClamped ==
    (/\ Parsed
     /\ prompted.response.kind \in {"object", "prose"}
     /\ parsed.reasoning \notin FailureReasonings) =>
        /\ parsed.confidence.type = "number"
        /\ parsed.confidence.num \in 0..One
        /\ prompted.response.object.confidence.type = "number" =>
                parsed.confidence.num = Nearest(prompted.response.object.confidence.num)

\* ------------------------------------------------------------ C24
\* C24 (as claimed): the returned intent is one of deploy, scale, delete, status, help
C24_IntentRecognized ==
    Parsed => parsed.intent \in {JsString(i) : i \in {"deploy", "scale", "delete", "status", "help"}}

\* ------------------------------------------------------------ the failure analyzer
\* the lines a log is made of
Lines ==
    {"Pulling image", "Error response from daemon: pull access denied",
     "request failed", "ERROR", "port 8080", "cannot bind",
     "address already in use", "Out of memory", "OOM", "killed",
     "Connection attempt 3 failed: connection refused", "connection refused", "timeout",
     "Permission denied", "access denied", "command not found", "no such file",
     "Invalid configuration: missing variable", "network unreachable",
     "DNS lookup failed", "listening"}

\* String.prototype.toLowerCase
ToLowerCase(line) ==
    CASE line = "Pulling image" -> "pulling image"
      [] line = "Error response from daemon: pull access denied" ->
                "error response from daemon: pull access denied"
      [] line = "ERROR" -> "error"
      [] line = "Out of memory" -> "out of memory"
      [] line = "OOM" -> "oom"
      [] line = "Connection attempt 3 failed: connection refused" ->
                "connection attempt 3 failed: connection refused"
      [] line = "Permission denied" -> "permission denied"
      [] line = "Invalid configuration: missing variable" ->
                "invalid configuration: missing variable"
      [] line = "DNS lookup failed" -> "dns lookup failed"
      [] OTHER -> line

\* the texts the rules look for that are substrings of a lower-case line
Substrings(lower) ==
    CASE lower = "pulling image" -> {"pull"}
      [] lower = "error response from daemon: pull access denied" ->
                {"error", "pull", "access denied"}
      [] lower = "request failed" -> {"failed"}
      [] lower = "error" -> {"error"}
      [] lower = "port 8080" -> {"port"}
      [] lower = "cannot bind" -> {"bind"}
      [] lower = "address already in use" -> {"already in use"}
      [] lower = "out of memory" -> {"out of memory"}
      [] lower = "oom" -> {"oom"}
      [] lower = "killed" -> {"killed"}
      [] lower = "connection attempt 3 failed: connection refused" ->
                {"connection", "failed", "refused"}
      [] lower = "connection refused" -> {"connection", "refused"}
      [] lower = "timeout" -> {"timeout"}
      [] lower = "permission denied" -> {"permission denied"}
      [] lower = "access denied" -> {"access denied"}
      [] lower = "command not found" -> {"command not found", "not found"}
      [] lower = "no such file" -> {"no such file"}
      [] lower = "invalid configuration: missing variable" -> {"config", "invalid", "missing"}
      [] lower = "network unreachable" -> {"network"}
      [] lower = "dns lookup failed" -> {"dns", "failed"}
      [] OTHER -> {}

\* logs.toLowerCase(), logs being lines joined by newlines
LowerLogs(logs) == {ToLowerCase(line) : line \in logs}

\* lowerLogs.includes(text)
LogIncludes(lowerLogs, text) == \E lower \in lowerLogs : text \in Substrings(lower)

\* the condition of the n-th if of performRuleBasedLogAnalysis
RuleMatches(n, lowerLogs) ==
    CASE n = 1 -> /\ LogIncludes(lowerLogs, "pull")
                  /\ (LogIncludes(lowerLogs, "failed") \/ LogIncludes(lowerLogs, "error"))
      [] n = 2 -> /\ LogIncludes(lowerLogs, "port")
                  /\ (LogIncludes(lowerLogs, "already in use") \/ LogIncludes(lowerLogs, "bind"))
      [] n = 3 -> \/ LogIncludes(lowerLogs, "out of memory")
                  \/ LogIncludes(lowerLogs, "oom")
                  \/ LogIncludes(lowerLogs, "killed")
      [] n = 4 -> /\ LogIncludes(lowerLogs, "connection")
                  /\ (LogIncludes(lowerLogs, "refused") \/ LogIncludes(lowerLogs, "timeout"))
      [] n = 5 -> \/ LogIncludes(lowerLogs, "permission denied")
                  \/ LogIncludes(lowerLogs, "access denied")
      [] n = 6 -> \/ LogIncludes(lowerLogs, "not found")
                  \/ LogIncludes(lowerLogs, "no such file")
                  \/ LogIncludes(lowerLogs, "command not found")
      [] n = 7 -> /\ LogIncludes(lowerLogs, "config")
                  /\ (LogIncludes(lowerLogs, "invalid") \/ LogIncludes(lowerLogs, "missing"))
      [] n = 8 -> LogIncludes(lowerLogs, "network") \/ LogIncludes(lowerLogs, "dns")
      [] OTHER -> TRUE

\* what the n-th if returns (explanation and suggestedFix are fixed texts that go
\* with the root cause); 9 is the return after the last if
RuleResult(n) ==
    CASE n = 1 -> [rootCause |-> JsString("Image Pull Failed"), confidence |-> JsNumber(90)]
      [] n = 2 -> [rootCause |-> JsString("Port Already In Use"), confidence |-> JsNumber(92)]
      [] n = 3 -> [rootCause |-> JsString("Out of Memory"), confidence |-> JsNumber(95)]
      [] n = 4 -> [rootCause |-> JsString("Database Connection Failed"), confidence |-> JsNumber(85)]
      [] n = 5 -> [rootCause |-> JsString("Permission Denied"), confidence |-> JsNumber(88)]
      [] n = 6 -> [rootCause |-> JsString("Missing Dependencies"), confidence |-> JsNumber(82)]
      [] n = 7 -> [rootCause |-> JsString("Configuration Error"), confidence |-> JsNumber(80)]
      [] n = 8 -> [rootCause |-> JsString("Network Connectivity Issue"), confidence |-> JsNumber(75)]
      [] OTHER -> [rootCause |-> JsString("Container Startup Failed"), confidence |-> JsNumber(50)]

\* mutant: the permission check before the memory check
RuleOrderPermissionFirst == <<1, 2, 5, 4, 3, 6, 7, 8, 9>>

\* the order in which the ifs stand
RuleOrder == <<1, 2, 3, 4, 5, 6, 7, 8, 9>>

\* FailureAnalyzer.performRuleBasedLogAnalysis
performRuleBasedLogAnalysis(logs) ==
    LET lowerLogs == LowerLogs(logs)
        first == CHOOSE i \in 1..Len(RuleOrder) :
                    /\ RuleMatches(RuleOrder[i], lowerLogs)
                    /\ \A j \in 1..(i - 1) : ~RuleMatches(RuleOrder[j], lowerLogs)
    IN RuleResult(RuleOrder[first])

\* mutant: the error of the model is not caught but answered with the default outcome
AnalysisFailedDefault(logs) == RuleResult(9)

\* the catch block of performAILogAnalysis
AnalysisFailed(logs) == performRuleBasedLogAnalysis(logs)

\* what generateText and JSON.parse(response.text) throw, "" when they throw
\* nothing; the text is parsed as it is, so words around an object are an error too
AnalysisError(response) ==
    CASE response.kind = "error" -> "model call failed"
      [] response.kind \in {"notext", "text", "prose"} -> "Unexpected token"
      [] response.kind = "null" -> "Cannot read properties of null (reading 'rootCause')"
      [] OTHER -> ""

\* FailureAnalyzer.performAILogAnalysis
performAILogAnalysis(response, logs) ==
    IF AnalysisError(response) # "" THEN AnalysisFailed(logs)
    ELSE [rootCause |-> OrElse(response.object.rootCause, JsString("Unknown failure")),
          confidence |-> ClampConfidence(response.object.confidence)]

\* the analyzer was constructed without a model
NoModel == Response("nomodel", NoObject)

\* what getContainerLogs gives: docker logs fails, or the local entries joined with
\* the output of docker logs
LogsOf(logs) == [ok |-> TRUE, logs |-> logs]

\* a container id the registry never holds
UnknownContainer == 99

\* mutant: the status is not looked at
IsFailedAlways(failedIds, id) == TRUE

\* container.status === "failed"
IsFailed(failedIds, id) == id \in failedIds

\* the outcome of FailureAnalyzer.analyzeFailure(id) on a registry: error is "none"
\* when a FailureAnalysis is returned, fetched tells whether getContainerLogs was called
analyzeFailure(registry, failedIds, id, model, out) ==
    IF id \notin Range(registry)
    THEN [error |-> "not found", fetched |-> FALSE, analyses |-> <<>>]
    ELSE IF ~IsFailed(failedIds, id)
    THEN [error |-> "not in failed state", fetched |-> FALSE, analyses |-> <<>>]
    ELSE IF ~out.ok
    THEN [error |-> "logs unavailable", fetched |-> TRUE, analyses |-> <<>>]
    ELSE LET outcome == IF model # NoModel THEN performAILogAnalysis(model, out.logs)
                        ELSE performRuleBasedLogAnalysis(out.logs)
         IN [error |-> "none", fetched |-> TRUE,
             analyses |-> << [containerId |-> id, appName |-> AppLabel(id),
                              rootCause |-> outcome.rootCause,
                              confidence |-> outcome.confidence, logs |-> out.logs] >>]

\* what an analyzer call leaves in `analysis'
Analysis(op, id, model, out, res, report) ==
    [op |-> op, containerId |-> id, model |-> model, out |-> out,
     error |-> res.error, fetched |-> res.fetched, analyses |-> res.analyses,
     report |-> report]

\* a FailureAnalyzer call touches the orchestrator, its client and the store not at all
AnalyzerFrame ==
    /\ ret' = "none"
    /\ UNCHANGED <<manifest, docker, nextId, isRunning, timers, reconcileInterval,
                   cycles, alive, extSince, prompted, parsed, toolCall, converted>>
    /\ StoreUnchanged

\* FailureAnalyzer.analyzeFailure on the client of the Phase 3 tools
AnalyzeFailure(id, model, out) ==
    /\ analysis' = Analysis("analyzeFailure", id, model, out,
                            analyzeFailure(containers["heal"], failed, id, model, out), NoReport)
    /\ UNCHANGED <<containers, failed>>
    /\ AnalyzerFrame

\* the status getRunningContainers gives a listed container:
\* status.includes('Up') ? 'running' : 'stopped', and docker ps lists what is up
ListedStatus(id) == IF id \in docker THEN "running" ELSE "stopped"

\* the loop of analyzeAllFailures over failedContainers, errors caught and logged
RECURSIVE AnalyzeEach(_, _, _, _, _)
AnalyzeEach(list, registry, failedIds, model, out) ==
    IF list = <<>> THEN <<>>
    ELSE analyzeFailure(registry, failedIds, Head(list), model, out).analyses
            \o AnalyzeEach(Tail(list), registry, failedIds, model, out)

\* FailureAnalyzer.analyzeAllFailures: the list of getRunningContainers, filtered on
\* status failed, each analysed against the registry as the listing left it
analyzeAllFailures(model, out) ==
    LET listed == NewestFirst(ListedByDocker)
        failedContainers == SelectSeq(listed, LAMBDA id : ListedStatus(id) = "failed")
    IN AnalyzeEach(failedContainers, containers'["heal"], failed', model, out)

AnalyzeAllFailures(model, out) ==
    /\ getRunningContainers("heal")
    /\ analysis' = Analysis("analyzeAllFailures", UnknownContainer, model, out,
                            [error |-> "none", fetched |-> FALSE,
                             analyses |-> analyzeAllFailures(model, out)], NoReport)
    /\ AnalyzerFrame

\* generateBasicReport: the root causes with the number of analyses of each
generateBasicReport(analyses) ==
    {<<cause, Cardinality({i \in 1..Len(analyses) : analyses[i].rootCause = cause})>> :
        cause \in {analyses[i].rootCause : i \in 1..Len(analyses)}}

\* FailureAnalyzer.generateFailureReport: kind "healthy" is the fixed message, "ai"
\* the text the model writes, "basic" the report of generateBasicReport, which the
\* analyzer also falls back to when the call of the model fails
generateFailureReport(model, analyses) ==
    IF Len(analyses) = 0 THEN [kind |-> "healthy", groups |-> {}]
    ELSE IF model # NoModel /\ model.kind # "error" THEN [kind |-> "ai", groups |-> {}]
    ELSE [kind |-> "basic", groups |-> generateBasicReport(analyses)]

GenerateFailureReport(model, out) ==
    /\ getRunningContainers("heal")
    /\ analysis' = Analysis("generateFailureReport", UnknownContainer, model, out,
                            [error |-> "none", fetched |-> FALSE,
                             analyses |-> analyzeAllFailures(model, out)],
                            generateFailureReport(model, analyzeAllFailures(model, out)))
    /\ AnalyzerFrame

\* ---- what the analyzer is given
\* the logs of at most n lines
RECURSIVE LogsUpTo(_)
LogsUpTo(n) ==
    IF n = 0 THEN {{}}
    ELSE LET shorter == LogsUpTo(n - 1)
         IN shorter \cup {logs \cup {line} : logs \in shorter, line \in Lines}

\* the analyzer has no model, or its model fails or writes no JSON object
FailingModels ==
    {Response(k, NoObject) : k \in {"error", "notext", "text", "null"}}
        \cup {Response("prose", [NoObject EXCEPT !.rootCause = JsString("Disk full")])}

\* the model answers with a JSON object
AnsweringModels ==
    {Response("object", [NoObject EXCEPT !.rootCause = rc, !.confidence = c]) :
        rc \in {Undefined, JsString("Disk full")}, c \in ConfidenceValues}

\* ---- classification as a function of the model and the log: the container db-0
\* is listed, made to fail, and analysed once
ClassifierNext ==
    \/ StoreUnchanged /\ AiUnchanged /\ Idle /\ analysis = NoAnalysis /\ HealthCheck
    \/ StoreUnchanged /\ AiUnchanged /\ Idle /\ analysis = NoAnalysis /\ SimulateFailure("db")
    \/ analysis = NoAnalysis /\ \E model \in FailingModels \cup {NoModel}, logs \in LogsUpTo(MaxLines) :
            AnalyzeFailure(0, model, LogsOf(logs))
    \/ analysis = NoAnalysis /\ \E model \in AnsweringModels, logs \in LogsUpTo(1) :
            AnalyzeFailure(0, model, LogsOf(logs))

ClassifierSpec == Init /\ [][ClassifierNext]_vars

\* ---- the analyzer on a runtime whose containers come, fail and go
AnalyzerModels == {NoModel, Response("error", NoObject)}
AnalyzerLogs == {[ok |-> FALSE, logs |-> {}], LogsOf({"connection refused"})}

AnalyzeFailureStep ==
    \E id \in Range(containers["heal"]) \cup docker \cup {UnknownContainer},
       model \in AnalyzerModels, out \in AnalyzerLogs : AnalyzeFailure(id, model, out)

AnalyzeAllFailuresStep ==
    \E model \in AnalyzerModels, out \in AnalyzerLogs : AnalyzeAllFailures(model, out)

GenerateFailureReportStep ==
    \E model \in AnalyzerModels, out \in AnalyzerLogs : GenerateFailureReport(model, out)

\* one deployment is made, by the orchestrator of the Phase 1 tools
AnalyzerNext ==
    \/ StoreUnchanged /\ AiUnchanged /\ Idle /\ nextId = 1 /\ DeployFromManifest
    \/ StoreUnchanged /\ AiUnchanged /\ alive /\ \E op \in BagToSet(cycles) : DeployContainerDone(op, "ok")
    \/ StoreUnchanged /\ AiUnchanged /\ Idle /\ \E id \in docker : ContainerDisappears(id)
    \/ StoreUnchanged /\ AiUnchanged /\ Idle /\ HealthCheck
    \/ StoreUnchanged /\ AiUnchanged /\ Idle /\ \E a \in Apps : SimulateFailure(a)
    \/ Idle /\ AnalyzeFailureStep
    \/ Idle /\ AnalyzeAllFailuresStep
    \/ Idle /\ GenerateFailureReportStep

AnalyzerSpec == Init /\ [][AnalyzerNext]_vars

\* ------------------------------------------------------------ C25
\* C25: analyzeFailure(id) fails with a not-found error when the registry of the
\* analyzer's client holds no container id, and with an invalid-state error when it
\* holds one whose status is not failed; in both cases getContainerLogs is not called
\* and no analysis is returned; an analysis is returned only for a container the
\* registry holds as failed
C25_ClassifyPreconditions ==
    [][AnalyzeFailureStep =>
        LET id == analysis'.containerId
            known == id \in Range(containers["heal"])
        IN /\ ~known =>
                /\ analysis'.error = "not found"
                /\ ~analysis'.fetched /\ analysis'.analyses = <<>>
           /\ (known /\ id \notin failed) =>
                /\ analysis'.error = "not in failed state"
                /\ ~analysis'.fetched /\ analysis'.analyses = <<>>
           /\ analysis'.analyses # <<>> => (known /\ id \in failed)
      ]_vars

\* analyzeFailure was called for a container the registry holds as running
C25_Witness ==
    /\ analysis.op = "analyzeFailure"
    /\ analysis.containerId \in Range(containers["heal"]) \ failed
    /\ analysis.error = "not in failed state"

\* ------------------------------------------------------------ C26
\* the outcomes in the order of the claim: pull-failure, port-conflict,
\* out-of-memory, connection-failure, permission-denied, missing-dependency,
\* config-error, network-issue, default
ClaimedOutcomes ==
    << <<"Image Pull Failed", 90>>, <<"Port Already In Use", 92>>, <<"Out of Memory", 95>>,
       <<"Database Connection Failed", 85>>, <<"Permission Denied", 88>>,
       <<"Missing Dependencies", 82>>, <<"Configuration Error", 80>>,
       <<"Network Connectivity Issue", 75>>, <<"Container Startup Failed", 50>> >>

\* an analysis was returned by the rule-based tier
RuleTier ==
    /\ analysis.op = "analyzeFailure"
    /\ analysis.model = NoModel
    /\ analysis.error = "none"

\* the analysed log contains the text, whatever its case
LogHas(text) == LogIncludes(LowerLogs(analysis.out.logs), text)

\* the returned analysis is the n-th outcome of the claim
Classified(n) ==
    /\ analysis.analyses[1].rootCause = JsString(ClaimedOutcomes[n][1])
    /\ analysis.analyses[1].confidence = JsNumber(ClaimedOutcomes[n][2])

\* the first rule, in the order of the claim, whose predicate matches gives the outcome
FirstMatchWins ==
    \A n \in 1..Len(ClaimedOutcomes) :
        (/\ RuleMatches(n, LowerLogs(analysis.out.logs))
         /\ \A j \in 1..(n - 1) : ~RuleMatches(j, LowerLogs(analysis.out.logs))) => Classified(n)

\* a log with "connection refused" and no text of the rules 1 to 3 is a connection
\* failure with confidence 0.85
ConnectionRefusedExample ==
    (/\ LogHas("connection") /\ LogHas("refused")
     /\ \A text \in {"pull", "failed", "error", "port", "already in use", "bind",
                     "out of memory", "oom", "killed"} : ~LogHas(text)) => Classified(4)

\* C26 (as claimed): first match wins in the order of the claim; a log with both
\* "permission denied" and "out of memory" is out-of-memory; the connection example
C26_AnyLogWithBothIsOutOfMemory ==
    RuleTier =>
        /\ FirstMatchWins
        /\ (LogHas("permission denied") /\ LogHas("out of memory")) => Classified(3)
        /\ ConnectionRefusedExample

\* C26 (amended): first match wins in the order of the claim; a log with both
\* "permission denied" and "out of memory" that matches neither the pull-failure nor
\* the port-conflict rule is out-of-memory; the connection example
C26_FirstMatchWins ==
    RuleTier =>
        /\ FirstMatchWins
        /\ (/\ LogHas("permission denied") /\ LogHas("out of memory")
            /\ ~RuleMatches(1, LowerLogs(analysis.out.logs))
            /\ ~RuleMatches(2, LowerLogs(analysis.out.logs))) => Classified(3)
        /\ ConnectionRefusedExample

\* the rule-based tier classified a log with both texts as out-of-memory
C26_Witness ==
    /\ RuleTier
    /\ LogHas("permission denied") /\ LogHas("out of memory")
    /\ Classified(3)

\* ------------------------------------------------------------ C27
\* C27: when the analyzer has a model whose call fails or whose text is no JSON
\* object, analyzeFailure of a failed container does not fail and returns what it
\* returns without a model: the outcome of the rules for the same container and log
C27_ModelFailureFallsBack ==
    [][ (/\ analysis.op = "none" /\ analysis'.op = "analyzeFailure"
         /\ analysis'.model \in FailingModels
         /\ analysis'.containerId \in Range(containers["heal"]) \cap failed) =>
            /\ analysis'.error = "none"
            /\ analysis'.analyses =
                    analyzeFailure(containers["heal"], failed, analysis'.containerId,
                                   NoModel, analysis'.out).analyses
            /\ analysis'.analyses[1].rootCause =
                    performRuleBasedLogAnalysis(analysis'.out.logs).rootCause
            /\ analysis'.analyses[1].confidence =
                    performRuleBasedLogAnalysis(analysis'.out.logs).confidence
      ]_vars

\* a call whose model failed returned the outcome of the memory rule
C27_Witness ==
    /\ analysis.op = "analyzeFailure"
    /\ analysis.model \in FailingModels
    /\ analysis.error = "none"
    /\ analysis.analyses[1].rootCause = JsString("Out of Memory")

\* ------------------------------------------------------------ C28
\* analyzeFailure(id) would return an analysis
Classifiable(id, model, out) ==
    analyzeFailure(containers["heal"], failed, id, model, out).error = "none"

\* C28 (as claimed): the list analyzeAllFailures returns holds an analysis of every
\* container that is failed when it is called, unless analysing that container
\* raises an error
C28_AllFailedAnalysed ==
    [][AnalyzeAllFailuresStep =>
        \A id \in Range(containers["heal"]) \cap failed :
            Classifiable(id, analysis'.model, analysis'.out) =>
                \E i \in 1..Len(analysis'.analyses) : analysis'.analyses[i].containerId = id
      ]_vars

\* ------------------------------------------------------------ C29
\* C29 (as claimed): generateFailureReport returns the fixed message when no
\* container is failed, and a report by root cause with counts whenever a failed
\* container exists that can be analysed
C29_ReportsFailures ==
    [][GenerateFailureReportStep =>
        /\ Range(containers["heal"]) \cap failed = {} => analysis'.report.kind = "healthy"
        /\ (\E id \in Range(containers["heal"]) \cap failed :
                Classifiable(id, analysis'.model, analysis'.out)) =>
                    /\ analysis'.report.kind = "basic"
                    /\ analysis'.report.groups = generateBasicReport(analysis'.analyses)
      ]_vars

\* ------------------------------------------------------------ the tools' execute functions
\* what execute has returned: success is FALSE when the result carries success: false,
\* healed are the ids of healedContainers
ToolReturned(tool, failures, healed, success) ==
    [tool |-> tool, failures |-> failures, healed |-> healed, returned |-> TRUE,
     success |-> success]

\* execute is suspended on a docker command
ToolRunning(tool, failures, healed) ==
    [tool |-> tool, failures |-> failures, healed |-> healed, returned |-> FALSE,
     success |-> FALSE]

\* the success of the result: reconcileTool returns success: true from its try block
\* and success: false from its catch block; autoHealTool catches the error of every
\* stopContainer inside its loop and returns success: true after the loop
ToolSuccess(tool, res) == IF tool = "autoHeal" THEN TRUE ELSE res = "ok"

\* reconcileTool.execute up to the first docker command
ReconcileTool ==
    /\ ManualReconcile
    /\ toolCall' = IF cycles' = cycles
                   THEN ToolReturned("reconcile", IF ret' = "error" THEN 1 ELSE 0, <<>>,
                                     ToolSuccess("reconcile", ret'))
                   ELSE ToolRunning("reconcile", 0, <<>>)

\* autoHealTool.execute up to the first docker command
AutoHealTool(target) ==
    /\ AutoHeal(target)
    /\ toolCall' = IF cycles' = cycles
                   THEN ToolReturned("autoHeal", 0, <<>>, ToolSuccess("autoHeal", "ok"))
                   ELSE ToolRunning("autoHeal", 0, <<>>)

\* a docker command of the call completes with outcome; execute goes on or returns.
\* auto-heal pushes the container onto healedContainers when stopContainer returned
ToolResumes(op, outcome) ==
    LET failures == toolCall.failures + IF outcome = "ok" THEN 0 ELSE 1
        healed == IF op.kind = "heal" /\ outcome = "ok"
                  THEN Append(toolCall.healed, Head(op.stop))
                  ELSE toolCall.healed
    IN toolCall' = IF BagCardinality(cycles') = BagCardinality(cycles)
                   THEN ToolRunning(toolCall.tool, failures, healed)
                   ELSE ToolReturned(toolCall.tool, failures, healed,
                                     ToolSuccess(toolCall.tool, ret'))

\* ---- the reconcile tool and the auto-heal tool, one call at a time, docker run,
\* docker stop and docker rm may fail
BoundaryNext ==
    \/ StoreUnchanged /\ AiUnchanged /\ Idle /\ HealthCheck
    \/ StoreUnchanged /\ AiUnchanged /\ Idle /\ \E a \in Apps : SimulateFailure(a)
    \/ StoreUnchanged /\ AiUnchanged /\ Idle /\
            \E r \in (1..MaxReplicas) \cup {InvalidManifest} : EditManifest(r)
    \/ StoreUnchanged /\ LanguageUnchanged /\ Idle /\ ReconcileTool
    \/ StoreUnchanged /\ LanguageUnchanged /\ Idle /\ \E a \in Apps \cup {"all"} : AutoHealTool(a)
    \/ StoreUnchanged /\ LanguageUnchanged /\ alive /\
            \E op \in BagToSet(cycles), o \in {"ok", "run"} :
                DeployContainerDone(op, o) /\ ToolResumes(op, o)
    \/ StoreUnchanged /\ LanguageUnchanged /\ alive /\
            \E op \in BagToSet(cycles), o \in {"ok", "stop", "rm"} :
                StopContainerDone(op, o) /\ ToolResumes(op, o)

BoundarySpec == Init /\ [][BoundaryNext]_vars

\* ------------------------------------------------------------ C30
\* C30 (as claimed): a tool call in which a command of a collaborator failed returns
\* a result with success = false
C30_ErrorsReported ==
    (toolCall.returned /\ toolCall.failures > 0) => ~toolCall.success

\* ------------------------------------------------------------ manifests
\* the decimal numeral of a number (String(n), and what yaml.dump writes for it)
Numeral(n) ==
    CASE n = 0 -> "0" [] n = 1 -> "1" [] n = 2 -> "2" [] n = 3 -> "3" [] n = 4 -> "4"
      [] n = 42 -> "42" [] n = 80 -> "80" [] n = 8080 -> "8080"
      [] OTHER -> "NaN"

\* yaml.load on one scalar: a quoted scalar is its text; a plain one is null when it
\* is empty or spells null, a number when it is a numeral, its text otherwise
YamlLoad(scalar) ==
    IF scalar.style = "absent" THEN Undefined
    ELSE IF scalar.style = "quoted" THEN JsString(scalar.text)
    ELSE IF scalar.text \in {"", "null", "~"} THEN Undefined
    ELSE IF \E n \in {0, 1, 2, 3, 4, 42, 80, 8080} : Numeral(n) = scalar.text
    THEN JsNumber(CHOOSE n \in {0, 1, 2, 3, 4, 42, 80, 8080} : Numeral(n) = scalar.text)
    ELSE JsString(scalar.text)

\* yaml.dump on one value: a number is its numeral; a text is written plain unless
\* it would be read back as something else, and quoted then
YamlDump(value) ==
    IF value.type = "number" THEN Scalar("plain", Numeral(value.num))
    ELSE IF YamlLoad(Scalar("plain", value.str)) = value THEN Scalar("plain", value.str)
    ELSE Scalar("quoted", value.str)

\* ManifestParser.appToYaml
appToYaml(app) ==
    ManifestText(YamlDump(JsString("Application")),
                 YamlDump(JsString(app.name)),
                 YamlDump(JsNumber(app.replicas)),
                 YamlDump(JsString(app.image)),
                 IF Len(app.ports) > 0
                 THEN [i \in 1..Len(app.ports) |-> YamlDump(JsNumber(app.ports[i]))]
                 ELSE <<>>)

\* StateManager.generateManifest: the template string it returns, in which only the
\* image stands between quotes
generateManifestText(app) ==
    ManifestText(Scalar("plain", "Application"),
                 Scalar("plain", app.name),
                 Scalar("plain", Numeral(app.replicas)),
                 Scalar("quoted", app.image),
                 IF Len(app.ports) > 0
                 THEN [i \in 1..Len(app.ports) |-> Scalar("plain", Numeral(app.ports[i]))]
                 ELSE <<>>)

\* mutant: the image is not checked
manifestToAppNoImageCheck(text) ==
    LET name == YamlLoad(text.name)
    IN IF YamlLoad(text.kind) # JsString("Application")
       THEN ParseResult("Invalid manifest: must be of kind 'Application'",
                        Undefined, Undefined, Undefined, FALSE, <<>>)
       ELSE IF Falsy(name)
       THEN ParseResult("Invalid manifest: metadata.name is required",
                        Undefined, Undefined, Undefined, FALSE, <<>>)
       ELSE ParseResult("", name, YamlLoad(text.image),
                        OrElse(YamlLoad(text.replicas), JsNumber(1)), FALSE, <<>>)

\* ManifestParser.manifestToApp on what yaml.load makes of the text
manifestToApp(text) ==
    LET kind == YamlLoad(text.kind)
        name == YamlLoad(text.name)
        image == YamlLoad(text.image)
    IN IF kind # JsString("Application")
       THEN ParseResult("Invalid manifest: must be of kind 'Application'",
                        Undefined, Undefined, Undefined, FALSE, <<>>)
       ELSE IF Falsy(name)
       THEN ParseResult("Invalid manifest: metadata.name is required",
                        Undefined, Undefined, Undefined, FALSE, <<>>)
       ELSE IF Falsy(image)
       THEN ParseResult("Invalid manifest: spec.container.image is required",
                        Undefined, Undefined, Undefined, FALSE, <<>>)
       ELSE ParseResult("", name, image,
                        OrElse(YamlLoad(text.replicas), JsNumber(1)),
                        text.ports # <<>>,
                        [i \in 1..Len(text.ports) |-> YamlLoad(text.ports[i])])

\* ManifestParser.parseFromString and parseFromFile: each wraps what is thrown
parseFromString(text) ==
    LET out == manifestToApp(text)
    IN IF out.error = "" THEN out
       ELSE [out EXCEPT !.error = "Failed to parse YAML manifest: Error: " \o @]

parseFromFile(text) ==
    LET out == parseFromString(text)
    IN IF out.error = "" THEN out
       ELSE [out EXCEPT !.error = "Failed to read manifest file: Error: " \o @]

\* what the orchestrator has of the manifest file: spec.replicas of the application
\* parsed from it, or that it cannot be parsed
ReadManifest(text) ==
    IF parseFromFile(text).error # "" THEN InvalidManifest
    ELSE parseFromFile(text).replicas.num

\* an application is written as a manifest text by `op' and the text is parsed back
Convert(op, app, text) ==
    /\ converted' = [op |-> op, app |-> app, text |-> text, out |-> parseFromString(text)]
    /\ UNCHANGED <<prompted, parsed, analysis, toolCall>>
    /\ RuntimeUnchanged
    /\ StoreUnchanged

\* the manifest file holds `text' and reconcile (op "reconcile") or
\* deployFromManifest (op "deploy") is called on it
CallOnManifest(op, text) ==
    /\ converted' = [op |-> op, app |-> NoConverted.app, text |-> text,
                     out |-> parseFromFile(text)]
    /\ manifest' = ReadManifest(text)
    /\ IF op = "reconcile" THEN ReconcileManifest("manual", manifest')
       ELSE DeployManifest(manifest')
    /\ ExtNext(FALSE)
    /\ UNCHANGED <<docker, nextId, containers, failed, isRunning>>
    /\ UNCHANGED <<prompted, parsed, analysis, toolCall>>
    /\ StoreUnchanged

\* ---- what is converted: applications with a name that reads as a number, an image
\* with a tag, no replicas, no port
ManifestApps ==
    {KubeLiteApp(n, i, r, p) :
        n \in Apps \cup {"42"}, i \in Images \cup {"redis:7"}, r \in 0..MaxReplicas,
        p \in {<<>>, <<80>>, <<80, 8080>>}}

\* the manifest files the orchestrator is called on: each of kind, name and image
\* right, wrong or missing
ManifestFiles ==
    {ManifestText(k, n, r, i, <<>>) :
        k \in {Scalar("plain", "Application"), Scalar("plain", "Deployment"), Absent},
        n \in {Scalar("plain", ManifestName), Scalar("quoted", ""), Absent},
        r \in {Scalar("plain", Numeral(x)) : x \in 0..MaxReplicas} \cup {Absent},
        i \in {Scalar("quoted", "nginx"), Scalar("quoted", ""), Absent}}

\* ---- one conversion, or one call on a manifest file, per behaviour
ManifestNext ==
    \/ converted = NoConverted /\ \E app \in ManifestApps : Convert("appToYaml", app, appToYaml(app))
    \/ converted = NoConverted /\
            \E app \in ManifestApps : Convert("generateManifest", app, generateManifestText(app))
    \/ converted = NoConverted /\ Idle /\ \E text \in ManifestFiles : CallOnManifest("reconcile", text)
    \/ converted = NoConverted /\ Idle /\ \E text \in ManifestFiles : CallOnManifest("deploy", text)
    \/ StoreUnchanged /\ AiUnchanged /\ alive /\ \E op \in BagToSet(cycles) : DeployContainerDone(op, "ok")

ManifestSpec == Init /\ [][ManifestNext]_vars

\* ------------------------------------------------------------ C31
\* C31 (as claimed): an application with a replica count >= 0 that is written as a
\* manifest text, by appToYaml or by generateManifest, and parsed back, comes back
\* with the same name, image, replica count and ports (no ports for an empty list)
C31_RoundTrip ==
    converted.op \in {"appToYaml", "generateManifest"} =>
        /\ converted.out.error = ""
        /\ converted.out.name = JsString(converted.app.name)
        /\ converted.out.image = JsString(converted.app.image)
        /\ converted.out.replicas = JsNumber(converted.app.replicas)
        /\ Len(converted.out.ports) = Len(converted.app.ports)
        /\ \A i \in 1..Len(converted.app.ports) :
                converted.out.ports[i] = JsNumber(converted.app.ports[i])

\* ------------------------------------------------------------ C36
\* C36: reconcile or deployFromManifest called on a manifest whose kind is not
\* Application, or that has no metadata.name or no spec.container.image, fails with
\* the error of the manifest parser that says which of the three is wrong, and no
\* docker command is issued: no operation is suspended on one and the runtime is as
\* it was
C36_InvalidManifestRejected ==
    [][ (/\ converted.op = "none" /\ converted'.op \in {"reconcile", "deploy"}
         /\ \/ converted'.text.kind # Scalar("plain", "Application")
            \/ converted'.text.name = Absent
            \/ converted'.text.image = Absent) =>
            /\ converted'.out.error \in
                  {"Failed to read manifest file: Error: Failed to parse YAML manifest: Error: "
                      \o "Invalid manifest: " \o what :
                   what \in {"must be of kind 'Application'", "metadata.name is required",
                             "spec.container.image is required"}}
            /\ converted'.op = "reconcile" => ret' = "error"
            /\ cycles' = cycles
            /\ docker' = docker /\ nextId' = nextId /\ containers' = containers
      ]_vars

\* reconcile was called on a manifest of kind Application with a name, two replicas
\* and no image, and has failed
C36_Witness ==
    /\ converted.op = "reconcile"
    /\ converted.text = ManifestText(Scalar("plain", "Application"), Scalar("plain", ManifestName),
                                     Scalar("plain", "2"), Absent, <<>>)
    /\ ret = "error"
    /\ cycles = EmptyBag /\ nextId = 1

\* ------------------------------------------------------------ C32
\* C32: a single-shot reconcile call rejects to its caller when the manifest cannot
\* be read or parsed, and when a docker command of its cycle fails (docker run,
\* docker inspect, docker stop or docker rm): the cycle ends there and the error is
\* the caller's
C32_ReconcileRejects ==
    [][ /\ (ManualReconcile /\ manifest = InvalidManifest) => ret' = "error"
        /\ \A op \in InFlight({"manual"}) :
              (\/ \E o \in {"run", "inspect"} : DeployContainerDone(op, o)
               \/ \E o \in {"stop", "rm"} : StopContainerDone(op, o)) =>
                    /\ ret' = "error"
                    /\ Ended(op)
      ]_vars

\* a reconcile call on a valid manifest has just rejected: a docker command of its
\* cycle failed after the cycle had created a container
C32_Witness ==
    /\ ret = "error"
    /\ manifest # InvalidManifest
    /\ cycles = EmptyBag
    /\ AppCount > 0

\* ------------------------------------------------------------ C33
\* C33 (as claimed): the number of containers a reconcile cycle takes as the
\* actual replica count when it begins is the number of managed containers with
\* the label of the target application that are in the runtime at that moment
C33_ActualIsRuntimeCount ==
    [][ ((Tick \/ (Start /\ ~isRunning)) /\ manifest # InvalidManifest) =>
            AppCount = RuntimeCount ]_vars

\* ------------------------------------------------------------ C34
\* C34 (as claimed): under every interleaving of start() and stop(), also while a
\* start() awaits its first reconciliation, at most one interval timer is armed,
\* and none while the controller is stopped; start() on a running controller
\* begins no cycle and arms no timer
C34_AtMostOneTimer ==
    /\ [](timers <= 1 /\ (~isRunning => timers = 0))
    /\ [][ (Start /\ isRunning) => (cycles' = cycles /\ timers' = timers) ]_vars

\* ------------------------------------------------------------ C35
\* C35: what a reconcile cycle has to create and to stop is fixed when it begins.
\* In every step each cycle in flight either is left as it is, whatever another
\* trigger does to the registry or the manifest in that step, or completes one
\* docker command of its own: it ends, or has one container less to create, or
\* goes on to the next container of its selection.
C35_SnapshotFixed ==
    [][ \A op \in ReconcileOps(cycles) :
            \/ CopiesIn(op, cycles') >= CopiesIn(op, cycles)
            \/ Ended(op)
            \/ op.create > 0 /\ Stepped(op, [op EXCEPT !.create = @ - 1])
            \/ op.stop # <<>> /\ Stepped(op, [op EXCEPT !.stop = Tail(@)])
      ]_vars

\* a cycle is in flight whose creates take the application above the manifest's
\* count, though the manifest was not edited since it began: another trigger has
\* added containers to the registry and the cycle keeps the diff it began with
C35_Witness ==
    /\ manifest # InvalidManifest /\ ~extSince
    /\ \E op \in ReconcileOps(cycles) :
          /\ op.create > 0
          /\ AppCount + op.create > ParseReplicas(manifest)

HealStopDone(op) ==
    /\ op.kind = "heal"
    /\ \E o \in {"ok", "stop", "rm"} : StopContainerDone(op, o)

\* C38: auto-heal stops only containers whose recorded status is failed, those of the
\* named application or of every application when none is named, and never a
\* running one; after a stopContainer that failed the call goes on with the next
\* container; the healed list of the result starts empty and gains exactly the
\* containers whose stopContainer removed them
C38_HealsOnlyFailed ==
    /\ [](\A op \in BagToSet(cycles) : op.kind = "heal" =>
              \A id \in Range(op.stop) :
                  /\ id \in failed
                  /\ id \in Range(containers["heal"])
                  /\ op.app # "all" => AppLabel(id) = op.app)
    /\ [][\A op \in BagToSet(cycles), o \in {"stop", "rm"} :
              (op.kind = "heal" /\ StopContainerDone(op, o) /\ Tail(op.stop) # <<>>) =>
                  \E next \in BagToSet(cycles') :
                      next.kind = "heal" /\ next.stop = Tail(op.stop)
         ]_vars
    /\ [][(\E a \in Apps \cup {"all"} : AutoHealTool(a)) => toolCall'.healed = <<>>]_vars
    /\ [][\A op \in BagToSet(cycles) : HealStopDone(op) =>
              toolCall'.healed =
                  IF Head(op.stop) \in Range(containers'["heal"]) THEN toolCall.healed
                  ELSE Append(toolCall.healed, Head(op.stop))
         ]_vars

\* an auto-heal call has returned after one stopContainer failed and another succeeded
C38_Witness ==
    /\ toolCall.tool = "autoHeal" /\ toolCall.returned
    /\ toolCall.failures > 0
    /\ toolCall.healed # <<>>

\* ------------------------------------------------------------ C39
\* C39 (as claimed): a container recorded failed in the runtime client's registry
\* stays recorded failed there for as long as it is in that registry
C39_FailedIsSticky ==
    [][\A id \in failed \ failed' : id \notin Range(containers'["heal"])]_vars

\* ------------------------------------------------------------ C40
\* C40 (as claimed): when a scale or a delete of the command tool returns
\* success = false because its reconcile or its container removal failed, the store
\* is as it was when the tool was called
C40_StoreRestoredOnFailure ==
    (ret = "error" /\ applied.intent \in {"scale", "delete"}) => applications = before

====
